---- MODULE Spec2Model ----
(***************************************************************************)
(* claude-replay: the turn segmenter of internal/session (segmentTurns)    *)
(* and the message helpers of internal/parser it calls.                    *)
(*                                                                         *)
(* segmentTurns walks the record list once.  Each step of the model reads  *)
(* one record, chosen from the finite set Records, and runs the whole loop *)
(* body on it; EndOfStream runs the code after the loop.                   *)
(*                                                                         *)
(* Texts are sequences of tokens.  A token is either one of the markup     *)
(* tags the parser's regular expressions look for, or a single character.  *)
(* Durations are counted in milliseconds.                                  *)
(***************************************************************************)
EXTENDS Integers, Sequences, FiniteSets, TLC

(***************************************************************************)
(* Bounds of the model.                                                    *)
(***************************************************************************)
\* the longest record list segmentTurns is run on
MaxRecords == 4

\* the longest stream Parse is run on, in lines
MaxLines == 4

\* the longest text computeDiff is run on, in characters
MaxText == 4

\* the slowest autoplay the slower key is pressed up to, in milliseconds
MaxAutoPlaySpeed == 2500

\* the most autoplay ticks the runtime is let to hold at once
MaxTicks == 2

\* the most project directories a session is looked up in
MaxProjects == 2

\* the most load commands of the browse app running at once
MaxLoads == 2

(***************************************************************************)
(* Tokens.                                                                 *)
(***************************************************************************)
BashInputOpen == "<bash-input>"
BashInputClose == "</bash-input>"
BashStdoutOpen == "<bash-stdout>"
BashStdoutClose == "</bash-stdout>"
BashStderrOpen == "<bash-stderr>"
BashStderrClose == "</bash-stderr>"
CommandNameOpen == "<command-name>"
CommandNameClose == "</command-name>"

Tags ==
  { BashInputOpen, BashInputClose, BashStdoutOpen, BashStdoutClose,
    BashStderrOpen, BashStderrClose, CommandNameOpen, CommandNameClose }

\* tokens whose first character is '<' (what [^<] refuses)
StartsWithLt(tok) == tok \in Tags \cup {"<"}

\* unicode.IsSpace on the characters the model uses
IsSpace(tok) == tok \in {" ", "\n", "\t"}

\* the smallest element of a non-empty set of integers
Min(S) == CHOOSE x \in S : \A y \in S : x <= y

(***************************************************************************)
(* internal/parser: the regular expressions on a user text.                *)
(***************************************************************************)
\* bashInputRe  ^<bash-input>([\s\S]*)</bash-input>$  (greedy, anchored)
BashInputMatches(text) ==
  /\ Len(text) >= 2
  /\ text[1] = BashInputOpen
  /\ text[Len(text)] = BashInputClose

BashInputGroup(text) == SubSeq(text, 2, Len(text) - 1)

\* A non-greedy  open([\s\S]*?)close : the leftmost open tag that has a close
\* tag somewhere after it, up to the first such close tag.
LazyStarts(text, open, close) ==
  { i \in 1..Len(text) :
      /\ text[i] = open
      /\ \E j \in (i + 1)..Len(text) : text[j] = close }

LazyMatches(text, open, close) == LazyStarts(text, open, close) # {}

LazyGroup(text, open, close) ==
  LET i == Min(LazyStarts(text, open, close))
      j == Min({ k \in (i + 1)..Len(text) : text[k] = close })
  IN  SubSeq(text, i + 1, j - 1)

\* commandNameRe  <command-name>(/[^<]+)</command-name>
\* a match starting at i and ending with the close tag at k
CommandNameAt(text, i, k) ==
  /\ text[i] = CommandNameOpen
  /\ i + 1 <= Len(text)
  /\ text[i + 1] = "/"
  /\ k >= i + 3
  /\ k <= Len(text)
  /\ text[k] = CommandNameClose
  /\ \A m \in (i + 2)..(k - 1) : ~StartsWithLt(text[m])

CommandNameStarts(text) ==
  { i \in 1..Len(text) : \E k \in 1..Len(text) : CommandNameAt(text, i, k) }

CommandNameGroup(text) ==
  LET i == Min(CommandNameStarts(text))
      k == CHOOSE k \in 1..Len(text) : CommandNameAt(text, i, k)
  IN  SubSeq(text, i + 1, k - 1)

(***************************************************************************)
(* internal/parser: methods of UserMessage.  A message content is          *)
(*   [kind |-> "string", text]    a JSON string                            *)
(*   [kind |-> "array", ok, items] a JSON array; ok says whether it        *)
(*                                unmarshals into []ToolResult             *)
(*   [kind |-> "other"]           anything else (null, a number, absent)   *)
(***************************************************************************)
UserText(content) ==
  IF content.kind = "string" THEN content.text ELSE << >>

IsToolResults(content) == content.kind = "array"

\* the results, and whether json.Unmarshal succeeded
ParseToolResults(content) ==
  IF content.ok THEN [err |-> FALSE, results |-> content.items]
  ELSE [err |-> TRUE, results |-> << >>]

\* (name, found)
CommandName(content) ==
  LET text == UserText(content)
  IN  IF CommandNameStarts(text) # {}
      THEN [name |-> CommandNameGroup(text), ok |-> TRUE]
      ELSE [name |-> << >>, ok |-> FALSE]

IsBashInput(content) == BashInputMatches(UserText(content))

ParseBashInput(content) ==
  IF BashInputMatches(UserText(content))
  THEN BashInputGroup(UserText(content))
  ELSE << >>

IsBashOutput(content) ==
  LET text == UserText(content)
  IN  \/ LazyMatches(text, BashStdoutOpen, BashStdoutClose)
      \/ LazyMatches(text, BashStderrOpen, BashStderrClose)

ParseBashOutput(content) ==
  LET text == UserText(content)
  IN  [ stdout |-> IF LazyMatches(text, BashStdoutOpen, BashStdoutClose)
                   THEN LazyGroup(text, BashStdoutOpen, BashStdoutClose)
                   ELSE << >>,
        stderr |-> IF LazyMatches(text, BashStderrOpen, BashStderrClose)
                   THEN LazyGroup(text, BashStderrOpen, BashStderrClose)
                   ELSE << >> ]

(***************************************************************************)
(* strings.TrimSpace and strings.Join on token sequences.                  *)
(***************************************************************************)
RECURSIVE TrimLeft(_)
TrimLeft(text) ==
  IF text # << >> /\ IsSpace(Head(text)) THEN TrimLeft(Tail(text)) ELSE text

RECURSIVE TrimRight(_)
TrimRight(text) ==
  IF text # << >> /\ IsSpace(text[Len(text)])
  THEN TrimRight(SubSeq(text, 1, Len(text) - 1))
  ELSE text

TrimSpace(text) == TrimRight(TrimLeft(text))

RECURSIVE JoinLines(_)
JoinLines(parts) ==
  IF parts = << >> THEN << >>
  ELSE IF Len(parts) = 1 THEN parts[1]
  ELSE parts[1] \o <<"\n">> \o JoinLines(Tail(parts))

(***************************************************************************)
(* internal/session: extractToolResultContent.  The raw content of a tool  *)
(* result is                                                               *)
(*   [kind |-> "none"]            absent (len(raw) = 0)                    *)
(*   [kind |-> "string", text]    a JSON string                            *)
(*   [kind |-> "array", parts]    an array of {type, text} objects, given  *)
(*                                by their text fields                     *)
(*   [kind |-> "raw", text]       any other JSON, kept as its source text  *)
(***************************************************************************)
RECURSIVE NonEmptyParts(_)
NonEmptyParts(parts) ==
  IF parts = << >> THEN << >>
  ELSE IF Head(parts) # << >>
       THEN <<Head(parts)>> \o NonEmptyParts(Tail(parts))
       ELSE NonEmptyParts(Tail(parts))

extractToolResultContent(raw) ==
  CASE raw.kind = "none" -> << >>
    [] raw.kind = "string" -> raw.text
    [] raw.kind = "array" -> JoinLines(NonEmptyParts(raw.parts))
    [] OTHER -> raw.text

(***************************************************************************)
(* The records segmentTurns is run on.  Of a Record the model keeps Type,  *)
(* IsMeta, Slug (SessionID and Version are handled by the same code        *)
(* pattern), CWD (GitBranch and Timestamp alike), Message, Subtype and     *)
(* DurationMs.  Message.ok says whether the message unmarshals into the    *)
(* UserMessage or AssistantMessage the record's type asks for.  DurationMs *)
(* is a float64: the model writes it in tenths of a millisecond, so that   *)
(* 50000 is 5000 ms and 5 is 0.5 ms.  IsSidechain is kept for Parse, which *)
(* drops the records that have it set.                                     *)
(***************************************************************************)
NoContent == [kind |-> "other", text |-> << >>, ok |-> FALSE, items |-> << >>]

StringContent(text) == [NoContent EXCEPT !.kind = "string", !.text = text]

ArrayContent(ok, items) ==
  [NoContent EXCEPT !.kind = "array", !.ok = ok, !.items = items]

NoMessage == [ok |-> FALSE, Content |-> NoContent, Model |-> "", Blocks |-> << >>]

NoRecord ==
  [ Type |-> "", IsMeta |-> FALSE, Slug |-> "", CWD |-> "",
    Message |-> NoMessage, Subtype |-> "", DurationMs |-> 0,
    IsSidechain |-> FALSE ]

UserRecord(meta, slug, cwd, content) ==
  [ NoRecord EXCEPT !.Type = "user", !.IsMeta = meta, !.Slug = slug, !.CWD = cwd,
                    !.Message = [NoMessage EXCEPT !.ok = TRUE, !.Content = content] ]

AssistantRecord(model, blocks) ==
  [ NoRecord EXCEPT !.Type = "assistant",
                    !.Message = [NoMessage EXCEPT !.ok = TRUE, !.Model = model,
                                                  !.Blocks = blocks] ]

SystemRecord(subtype, ms) ==
  [NoRecord EXCEPT !.Type = "system", !.Subtype = subtype, !.DurationMs = ms]

NoRaw == [kind |-> "none", text |-> << >>, parts |-> << >>]
StringRaw(text) == [NoRaw EXCEPT !.kind = "string", !.text = text]
ArrayRaw(parts) == [NoRaw EXCEPT !.kind = "array", !.parts = parts]

\* a tool result of a user message (IsError: "nil", "true" or "false"), and
\* an entry of such an array that is no tool result
ToolResult(id, raw, isError) ==
  [Type |-> "tool_result", ToolUseID |-> id, Content |-> raw, IsError |-> isError]

TextEntry ==
  [Type |-> "text", ToolUseID |-> "", Content |-> NoRaw, IsError |-> "nil"]

\* a content block of an assistant message
ContentBlock(type, text, thinking, id, name, input) ==
  [ Type |-> type, Text |-> text, Thinking |-> thinking, ID |-> id,
    Name |-> name, Input |-> input ]

TextBlockIn(text) == ContentBlock("text", text, << >>, "", "", "")
ThinkingBlockIn(text) == ContentBlock("thinking", << >>, text, "", "", "")
ToolUseIn(id, name, input) == ContentBlock("tool_use", << >>, << >>, id, name, input)

(***************************************************************************)
(* The user texts of the model: plain, empty, the shell escapes, a slash   *)
(* command, and texts that carry the markers of several of these.          *)
(***************************************************************************)
TextHi == <<"h", "i">>
TextBashInput == <<BashInputOpen, "l", "s", BashInputClose>>
TextStdout == <<BashStdoutOpen, "o", "k", BashStdoutClose>>
TextStderr == <<BashStderrOpen, "e", BashStderrClose>>
TextStdoutStderr ==
  <<BashStdoutOpen, "o", BashStdoutClose, BashStderrOpen, "e", BashStderrClose>>
TextEmptyOutput ==
  <<BashStdoutOpen, BashStdoutClose, BashStderrOpen, BashStderrClose>>
TextCommand == <<CommandNameOpen, "/", "c", CommandNameClose, "x">>
TextNoSlash == <<CommandNameOpen, "c", CommandNameClose>>
TextInputWithStdout ==
  <<BashInputOpen, BashStdoutOpen, "o", BashStdoutClose, BashInputClose>>
TextInputWithCommand ==
  <<BashInputOpen, CommandNameOpen, "/", "c", CommandNameClose, BashInputClose>>
TextCommandWithStdout ==
  <<CommandNameOpen, "/", "c", CommandNameClose, BashStdoutOpen, "o", BashStdoutClose>>

UserTexts ==
  { << >>, TextHi, TextBashInput, TextStdout, TextStderr, TextStdoutStderr,
    TextEmptyOutput, TextCommand, TextNoSlash, TextInputWithStdout,
    TextInputWithCommand, TextCommandWithStdout }

ResultOk == ToolResult("t1", StringRaw(<<"o", "k">>), "nil")
ResultErr == ToolResult("t9", ArrayRaw(<<<<"a">>, << >>, <<"b">>>>), "true")

UserArrays ==
  { ArrayContent(TRUE, << >>),
    ArrayContent(TRUE, <<ResultOk>>),
    ArrayContent(TRUE, <<ResultErr, TextEntry, ResultOk>>),
    ArrayContent(FALSE, << >>) }

UserRecords ==
  { UserRecord(FALSE, "", "", StringContent(t)) : t \in UserTexts }
    \cup { UserRecord(FALSE, "", "", c) : c \in UserArrays \cup {NoContent} }
    \cup { UserRecord(TRUE, "", "", c) :
             c \in { StringContent(TextHi), StringContent(TextBashInput),
                     StringContent(TextStdout), ArrayContent(TRUE, <<ResultOk>>) } }
    \cup { UserRecord(FALSE, "s1", "/w", StringContent(TextHi)),
           UserRecord(TRUE, "s2", "/v", StringContent(TextCommand)),
           [UserRecord(FALSE, "", "", StringContent(TextHi)) EXCEPT !.Message.ok = FALSE] }

AssistantRecords ==
  { AssistantRecord("", <<TextBlockIn(<<" ", "h", "i", "\n">>)>>),
    AssistantRecord("m1", <<ThinkingBlockIn(<<"t">>), ToolUseIn("t1", "Bash", "{}")>>),
    AssistantRecord("m2", <<TextBlockIn(<<" ">>), ThinkingBlockIn(<< >>),
                            ContentBlock("image", <<"x">>, << >>, "", "", ""),
                            TextBlockIn(<<"a">>)>>),
    AssistantRecord("m1", << >>),
    [AssistantRecord("m2", <<TextBlockIn(<<"a">>)>>) EXCEPT !.Message.ok = FALSE] }

SystemRecords ==
  { SystemRecord("turn_duration", 50000), SystemRecord("turn_duration", 30000),
    SystemRecord("turn_duration", 5), SystemRecord("turn_duration", 0),
    SystemRecord("api_error", 50000) }

\* record types Parse lets through and segmentTurns has no case for
OtherRecords == { [NoRecord EXCEPT !.Type = "summary", !.Slug = "s2"] }

Records == UserRecords \cup AssistantRecords \cup SystemRecords \cup OtherRecords

(***************************************************************************)
(* internal/session: Turn, Block and the state of segmentTurns.            *)
(*                                                                         *)
(* currentTurn is a pointer: << >> is nil, <<t>> points to the turn t.     *)
(* sess holds the fields of *Session that segmentTurns writes.             *)
(***************************************************************************)
VARIABLES
  turns,            \* []Turn: the turns closed so far; the result at the end
  currentTurn,      \* *Turn
  turnNum,          \* int
  pendingDuration,  \* time.Duration
  sess,             \* *Session
  rec,              \* the record of the loop's current iteration
  nread,            \* how many records of the list have been read
  pc,               \* "loop" inside the range loop, "done" after the return
  noteInTurn        \* history: DurationMs of the last positive duration note
                    \* read since the open turn was opened, 0 if there is none

\* Parse and LoadSession
VARIABLES
  records,          \* []Record: the records Parse has appended so far
  line,             \* the line of the scanner's current token
  nlines,           \* how many lines have been scanned
  parseErr,         \* scanner.Err()
  parsePc,          \* "scan" in Parse's loop, "returned" after it, "loaded"
  loaded,           \* what LoadSession returned
  shadow,           \* history: the records Parse would hold if every line of
                    \* an unrecognized type had been a malformed line
  outcome           \* what the caller of LoadSession made of its return

\* computeDiff
VARIABLES
  diff              \* the arguments and locals of computeDiff, and its position

\* QuickScan
VARIABLES
  quick             \* the results and locals of QuickScan, and its position

\* FindSessionByID and GitSource.FindSession
VARIABLES
  find              \* the stored sessions, the query, and what was returned

\* the browse app
VARIABLES
  app               \* the AppModel and the load commands that are running

\* the replay screen and the export of one loaded Session
VARIABLES
  session,          \* *session.Session: the Session both are given
  replay,           \* the replay Model, the ticks the runtime holds for it,
                    \* the last View, and where the screen stands
  cast              \* GenerateCast's options and locals, the file it writes

segmentVars ==
  <<turns, currentTurn, turnNum, pendingDuration, sess, rec, nread, pc, noteInTurn>>

parseVars == <<records, line, nlines, parseErr, parsePc, loaded, shadow, outcome>>

viewVars == <<session, replay, cast>>

vars == <<segmentVars, parseVars, diff, quick, viewVars, find, app>>

\* what a step of segmentTurns, and what a step of Parse or of a caller of
\* LoadSession, leaves alone
exceptSegment == <<parseVars, diff, quick, viewVars, find, app>>
exceptParse == <<segmentVars, diff, quick, viewVars, find, app>>
exceptDiff == <<segmentVars, parseVars, quick, viewVars, find, app>>
exceptQuick == <<segmentVars, parseVars, diff, viewVars, find, app>>
exceptDiscover == <<segmentVars, diff, viewVars, find, app>>
exceptView == <<segmentVars, parseVars, diff, quick, find, app>>
exceptFind == <<segmentVars, parseVars, diff, quick, viewVars, app>>
exceptApp == <<segmentVars, parseVars, diff, quick, viewVars, find>>

BlockText == "text"
BlockThinking == "thinking"
BlockToolUse == "tool_use"
BlockToolResult == "tool_result"

\* the zero Block
NoBlock ==
  [ Type |-> BlockText, Text |-> << >>, ToolName |-> "", ToolInput |-> "nil",
    ToolID |-> "", IsError |-> FALSE, RawInput |-> "" ]

\* the segmenter's locals and the session, as one value
State ==
  [ turns |-> turns, currentTurn |-> currentTurn, turnNum |-> turnNum,
    pendingDuration |-> pendingDuration, sess |-> sess ]

(***************************************************************************)
(* segmentTurns: the loop body, as functions from the state s before a     *)
(* record r to the state after it.                                         *)
(***************************************************************************)
\* a faulty variant: the duration is rounded to the nearest millisecond
ToDurationRounding(tenths) == (tenths + 5) \div 10

\* time.Duration(rec.DurationMs) * time.Millisecond: the float64 is cut to
\* an integer number of milliseconds
ToDuration(tenths) == tenths \div 10

\* "Extract session metadata from first records we see"
SessionMetadata(s, r) ==
  [s EXCEPT !.sess.Slug = IF @ = "" /\ r.Slug # "" THEN r.Slug ELSE @]

\* "Save pending duration to previous turn"
FlushPending(s) ==
  IF s.currentTurn # << >> /\ s.pendingDuration > 0
  THEN [s EXCEPT !.currentTurn[1].Duration = s.pendingDuration,
                 !.pendingDuration = 0]
  ELSE s

\* "Finalize previous turn": turns = append(turns, *currentTurn)
FinalizeTurn(s) ==
  IF s.currentTurn # << >>
  THEN [s EXCEPT !.turns = Append(@, s.currentTurn[1])]
  ELSE s

\* a faulty variant: the turn takes the session's slug, not the record's
OpenTurnSessionSlug(s, r, text) ==
  [s EXCEPT !.turnNum = @ + 1,
            !.currentTurn =
               << [ Number |-> s.turnNum + 1, UserText |-> text, Blocks |-> << >>,
                    Duration |-> 0, Model |-> "", CWD |-> r.CWD,
                    Slug |-> s.sess.Slug ] >>,
            !.sess.CWD = IF @ = "" THEN r.CWD ELSE @]

\* turnNum++; currentTurn = &Turn{...}; sess.CWD from the first turn
OpenTurn(s, r, text) ==
  [s EXCEPT !.turnNum = @ + 1,
            !.currentTurn =
               << [ Number |-> s.turnNum + 1, UserText |-> text, Blocks |-> << >>,
                    Duration |-> 0, Model |-> "", CWD |-> r.CWD, Slug |-> r.Slug ] >>,
            !.sess.CWD = IF @ = "" THEN r.CWD ELSE @]

\* currentTurn.Blocks = append(currentTurn.Blocks, ...)
AppendBlocks(s, blocks) == [s EXCEPT !.currentTurn[1].Blocks = @ \o blocks]

\* a faulty variant: the newline is added whenever stderr is non-empty
BashOutputTextAlwaysNewline(out) ==
  IF out.stderr # << >> THEN out.stdout \o <<"\n">> \o out.stderr ELSE out.stdout

\* stdout, then a newline if both are non-empty, then stderr
BashOutputText(out) ==
  IF out.stderr # << >>
  THEN (IF out.stdout # << >> THEN out.stdout \o <<"\n">> ELSE << >>) \o out.stderr
  ELSE out.stdout

\* if userMsg.IsBashOutput() { ... }
BashOutputCase(s, content) ==
  IF s.currentTurn # << >>
  THEN LET output == BashOutputText(ParseBashOutput(content))
       IN  IF output # << >>
           THEN AppendBlocks(s, <<[NoBlock EXCEPT !.Type = BlockText, !.Text = output]>>)
           ELSE s
  ELSE s

\* a faulty variant: the pending duration is not saved to the previous turn
BashInputCaseNoFlush(s, r, content) ==
  OpenTurn(FinalizeTurn(s), r, <<"!">> \o ParseBashInput(content))

\* else if userMsg.IsBashInput() { ... }
BashInputCase(s, r, content) ==
  OpenTurn(FinalizeTurn(FlushPending(s)), r, <<"!">> \o ParseBashInput(content))

\* the blocks of  for _, tr := range results { ... }
RECURSIVE ToolResultBlocks(_)
ToolResultBlocks(results) ==
  IF results = << >> THEN << >>
  ELSE LET tr == Head(results)
       IN  IF tr.Type # "tool_result" THEN ToolResultBlocks(Tail(results))
           ELSE << [ NoBlock EXCEPT !.Type = BlockToolResult,
                                    !.ToolID = tr.ToolUseID,
                                    !.Text = extractToolResultContent(tr.Content),
                                    !.IsError = (tr.IsError = "true") ] >>
                \o ToolResultBlocks(Tail(results))

\* a faulty variant: results read with no turn open are kept for the next turn
ToolResultsCaseOpeningTurn(s, content) ==
  LET parsed == ParseToolResults(content)
  IN  IF parsed.err THEN s
      ELSE IF s.currentTurn # << >>
           THEN AppendBlocks(s, ToolResultBlocks(parsed.results))
           ELSE AppendBlocks(OpenTurn(s, NoRecord, << >>),
                             ToolResultBlocks(parsed.results))

\* else if userMsg.IsToolResults() { ... }
ToolResultsCase(s, content) ==
  IF s.currentTurn # << >>
  THEN LET parsed == ParseToolResults(content)
       IN  IF ~parsed.err THEN AppendBlocks(s, ToolResultBlocks(parsed.results)) ELSE s
  ELSE s

\* a faulty variant: no test for an empty text
UserTextCaseOpeningEmpty(s, r, content) ==
  LET cmd == CommandName(content)
      text == IF cmd.ok THEN cmd.name ELSE UserText(content)
  IN  OpenTurn(FinalizeTurn(FlushPending(s)), r, text)

\* a faulty variant: the command name is found and not used
UserTextCaseRawText(s, r, content) ==
  LET text == UserText(content)
  IN  IF text = << >> THEN s
      ELSE OpenTurn(FinalizeTurn(FlushPending(s)), r, text)

\* a faulty variant: the turn counter advances before the empty-text check
UserTextCaseCountingEmpty(s, r, content) ==
  LET cmd == CommandName(content)
      text == IF cmd.ok THEN cmd.name ELSE UserText(content)
  IN  IF text = << >> THEN [s EXCEPT !.turnNum = @ + 1]
      ELSE OpenTurn(FinalizeTurn(FlushPending(s)), r, text)

\* else { ... }: a slash command or a plain text
UserTextCase(s, r, content) ==
  LET cmd == CommandName(content)
      text == IF cmd.ok THEN cmd.name ELSE UserText(content)
  IN  IF text = << >> THEN s
      ELSE OpenTurn(FinalizeTurn(FlushPending(s)), r, text)

\* a faulty variant: the shell-input test comes before the shell-output test
UserCaseInputFirst(s, r) ==
  IF r.IsMeta THEN s
  ELSE IF ~r.Message.ok THEN s
  ELSE LET content == r.Message.Content
       IN  IF IsBashInput(content) THEN BashInputCase(s, r, content)
           ELSE IF IsBashOutput(content) THEN BashOutputCase(s, content)
           ELSE IF IsToolResults(content) THEN ToolResultsCase(s, content)
           ELSE UserTextCase(s, r, content)

\* a faulty variant: the meta flag is tested only on the plain-text branch
UserCaseMetaLate(s, r) ==
  IF ~r.Message.ok THEN s
  ELSE LET content == r.Message.Content
       IN  IF IsBashOutput(content) THEN BashOutputCase(s, content)
           ELSE IF IsBashInput(content) THEN BashInputCase(s, r, content)
           ELSE IF IsToolResults(content) THEN ToolResultsCase(s, content)
           ELSE IF r.IsMeta THEN s
           ELSE UserTextCase(s, r, content)

\* case parser.RecordTypeUser
UserCase(s, r) ==
  IF r.IsMeta THEN s
  ELSE IF ~r.Message.ok THEN s
  ELSE LET content == r.Message.Content
       IN  IF IsBashOutput(content) THEN BashOutputCase(s, content)
           ELSE IF IsBashInput(content) THEN BashInputCase(s, r, content)
           ELSE IF IsToolResults(content) THEN ToolResultsCase(s, content)
           ELSE UserTextCase(s, r, content)

\* a faulty variant: a text is tested for emptiness before it is trimmed
RECURSIVE AssistantBlocksBlankKept(_)
AssistantBlocksBlankKept(content) ==
  IF content = << >> THEN << >>
  ELSE LET cb == Head(content)
           rest == AssistantBlocksBlankKept(Tail(content))
       IN  CASE cb.Type = "text" ->
                  IF cb.Text = << >> THEN rest
                  ELSE <<[NoBlock EXCEPT !.Type = BlockText,
                                         !.Text = TrimSpace(cb.Text)]>> \o rest
             [] cb.Type = "thinking" ->
                  IF cb.Thinking = << >> THEN rest
                  ELSE <<[NoBlock EXCEPT !.Type = BlockThinking,
                                         !.Text = cb.Thinking]>> \o rest
             [] cb.Type = "tool_use" ->
                  << [ NoBlock EXCEPT !.Type = BlockToolUse,
                                      !.ToolName = cb.Name,
                                      !.ToolID = cb.ID,
                                      !.ToolInput = IF cb.Input = "{}" THEN "map" ELSE "nil",
                                      !.RawInput = cb.Input ] >> \o rest
             [] OTHER -> rest

\* the blocks of  for _, cb := range aMsg.Content { switch cb.Type ... }
RECURSIVE AssistantBlocks(_)
AssistantBlocks(content) ==
  IF content = << >> THEN << >>
  ELSE LET cb == Head(content)
           rest == AssistantBlocks(Tail(content))
       IN  CASE cb.Type = "text" ->
                  IF TrimSpace(cb.Text) = << >> THEN rest
                  ELSE <<[NoBlock EXCEPT !.Type = BlockText,
                                         !.Text = TrimSpace(cb.Text)]>> \o rest
             [] cb.Type = "thinking" ->
                  IF cb.Thinking = << >> THEN rest
                  ELSE <<[NoBlock EXCEPT !.Type = BlockThinking,
                                         !.Text = cb.Thinking]>> \o rest
             [] cb.Type = "tool_use" ->
                  << [ NoBlock EXCEPT !.Type = BlockToolUse,
                                      !.ToolName = cb.Name,
                                      !.ToolID = cb.ID,
                                      !.ToolInput = IF cb.Input = "{}" THEN "map" ELSE "nil",
                                      !.RawInput = cb.Input ] >> \o rest
             [] OTHER -> rest

\* a faulty variant: every non-empty model name is taken
SetModelOverwriting(s, model) ==
  IF model # ""
  THEN [s EXCEPT !.currentTurn[1].Model = model,
                 !.sess.Model = IF @ = "" THEN model ELSE @]
  ELSE s

\* if currentTurn.Model == "" && aMsg.Model != "" { ... }
SetModel(s, model) ==
  IF s.currentTurn[1].Model = "" /\ model # ""
  THEN [s EXCEPT !.currentTurn[1].Model = model,
                 !.sess.Model = IF @ = "" THEN model ELSE @]
  ELSE s

\* a faulty variant: the blocks of a message are taken whether or not the
\* message parsed
AssistantCaseIgnoringError(s, r) ==
  IF s.currentTurn = << >> THEN s
  ELSE AppendBlocks(SetModel(s, r.Message.Model), AssistantBlocks(r.Message.Blocks))

\* case parser.RecordTypeAssistant
AssistantCase(s, r) ==
  IF s.currentTurn = << >> THEN s
  ELSE IF ~r.Message.ok THEN s
  ELSE AppendBlocks(SetModel(s, r.Message.Model), AssistantBlocks(r.Message.Blocks))

\* a faulty variant: the duration is also written on the turn closed last
SystemCaseStampingClosed(s, r) ==
  IF r.Subtype = "turn_duration" /\ r.DurationMs > 0
  THEN IF s.turns # << >>
       THEN [s EXCEPT !.pendingDuration = ToDuration(r.DurationMs),
                      !.turns[Len(s.turns)].Duration = ToDuration(r.DurationMs)]
       ELSE [s EXCEPT !.pendingDuration = ToDuration(r.DurationMs)]
  ELSE s

\* case parser.RecordTypeSystem
SystemCase(s, r) ==
  IF r.Subtype = "turn_duration" /\ r.DurationMs > 0
  THEN [s EXCEPT !.pendingDuration = ToDuration(r.DurationMs)]
  ELSE s

\* one iteration of  for _, rec := range records
LoopBody(s, r) ==
  LET s1 == SessionMetadata(s, r)
  IN  CASE r.Type = "user" -> UserCase(s1, r)
        [] r.Type = "assistant" -> AssistantCase(s1, r)
        [] r.Type = "system" -> SystemCase(s1, r)
        [] OTHER -> s1

\* "Finalize last turn"
FinalizeLast(s) ==
  IF s.currentTurn # << >>
  THEN LET t == IF s.pendingDuration > 0
                THEN [s.currentTurn[1] EXCEPT !.Duration = s.pendingDuration]
                ELSE s.currentTurn[1]
       IN  [s EXCEPT !.currentTurn = <<t>>, !.turns = Append(@, t)]
  ELSE s

\* the locals of segmentTurns at its start, and the fresh &Session{Path: path}
InitState ==
  [ turns |-> << >>, currentTurn |-> << >>, turnNum |-> 0, pendingDuration |-> 0,
    sess |-> [Slug |-> "", CWD |-> "", Model |-> ""] ]

\* for _, rec := range records { ... }
RECURSIVE WalkRecords(_, _)
WalkRecords(s, recs) ==
  IF recs = << >> THEN s ELSE WalkRecords(LoopBody(s, Head(recs)), Tail(recs))

\* segmentTurns(records, sess): the state at the return, turns the result
segmentTurns(recs) == FinalizeLast(WalkRecords(InitState, recs))

(***************************************************************************)
(* internal/parser: Parse.  A line of the stream is                        *)
(*   [kind |-> "empty"]           no byte between two newlines             *)
(*   [kind |-> "malformed"]       bytes json.Unmarshal cannot put in a     *)
(*                                Record                                   *)
(*   [kind |-> "json", rec]       a JSON object, rec the Record it gives   *)
(*   [kind |-> "toolong"]         a line longer than the scanner's buffer  *)
(*                                may grow (16 MB)                         *)
(***************************************************************************)
RecordTypeProgress == "progress"
RecordTypeSnapshot == "file-history-snapshot"

\* the values of RecordType the package declares
RecordTypes == {"user", "assistant", "system", RecordTypeProgress, RecordTypeSnapshot}

ErrTooLong == "bufio.Scanner: token too long"

EmptyLine == [kind |-> "empty", rec |-> NoRecord]
MalformedLine == [kind |-> "malformed", rec |-> NoRecord]
TooLongLine == [kind |-> "toolong", rec |-> NoRecord]
JSONLine(r) == [kind |-> "json", rec |-> r]

\* the records the lines of the model decode to
LineRecords ==
  { UserRecord(FALSE, "s1", "/w", StringContent(TextHi)),
    UserRecord(FALSE, "", "", StringContent(TextBashInput)),
    AssistantRecord("m1", <<TextBlockIn(<<"a">>)>>),
    SystemRecord("turn_duration", 50000),
    [NoRecord EXCEPT !.Type = "summary", !.Slug = "s2"],
    NoRecord,
    [NoRecord EXCEPT !.Type = RecordTypeProgress, !.Slug = "s3"],
    [NoRecord EXCEPT !.Type = RecordTypeSnapshot],
    [UserRecord(FALSE, "s4", "/x", StringContent(TextHi)) EXCEPT !.IsSidechain = TRUE],
    [AssistantRecord("m2", <<TextBlockIn(<<"b">>)>>) EXCEPT !.IsSidechain = TRUE] }

Lines ==
  {EmptyLine, MalformedLine, TooLongLine} \cup { JSONLine(r) : r \in LineRecords }

\* a faulty variant: an oversize line is handed over like any other token
ScanSkippingLong(l) == [ok |-> TRUE, err |-> ""]

\* scanner.Scan() on a stream whose next line is l, and scanner.Err() after it
Scan(l) ==
  IF l.kind = "toolong" THEN [ok |-> FALSE, err |-> ErrTooLong]
  ELSE [ok |-> TRUE, err |-> ""]

\* json.Unmarshal(line, &rec)
Unmarshal(l) ==
  IF l.kind = "json" THEN [err |-> FALSE, rec |-> l.rec]
  ELSE [err |-> TRUE, rec |-> NoRecord]

\* a faulty variant: the record is put in front of the list
ParseLinePrepending(recs, l) ==
  IF l.kind = "empty" THEN recs
  ELSE LET got == Unmarshal(l)
       IN  IF got.err THEN recs
           ELSE IF got.rec.Type \in {RecordTypeProgress, RecordTypeSnapshot} THEN recs
           ELSE IF got.rec.IsSidechain THEN recs
           ELSE <<got.rec>> \o recs

\* a faulty variant: the error of json.Unmarshal is not looked at
ParseLineKeepingZero(recs, l) ==
  IF l.kind = "empty" THEN recs
  ELSE LET got == Unmarshal(l)
       IN  IF got.rec.Type \in {RecordTypeProgress, RecordTypeSnapshot} THEN recs
           ELSE IF got.rec.IsSidechain THEN recs
           ELSE Append(recs, got.rec)

\* a faulty variant: no test of IsSidechain
ParseLineKeepingSidechain(recs, l) ==
  IF l.kind = "empty" THEN recs
  ELSE LET got == Unmarshal(l)
       IN  IF got.err THEN recs
           ELSE IF got.rec.Type \in {RecordTypeProgress, RecordTypeSnapshot} THEN recs
           ELSE Append(recs, got.rec)

\* one iteration of  for scanner.Scan() { ... }  on the records so far
ParseLine(recs, l) ==
  IF l.kind = "empty" THEN recs
  ELSE LET got == Unmarshal(l)
       IN  IF got.err THEN recs
           ELSE IF got.rec.Type \in {RecordTypeProgress, RecordTypeSnapshot} THEN recs
           ELSE IF got.rec.IsSidechain THEN recs
           ELSE Append(recs, got.rec)

\* LoadSession, given what parser.ParseFile returned: the error and *Session
LoadSession(recs, err) ==
  IF err # "" THEN [err |-> "parsing session file", sess |-> << >>]
  ELSE IF Len(recs) = 0 THEN [err |-> "empty session file", sess |-> << >>]
  ELSE LET s == segmentTurns(recs)
       IN  [ err |-> "",
             sess |-> << [ Slug |-> s.sess.Slug, CWD |-> s.sess.CWD,
                           Model |-> s.sess.Model, Turns |-> s.turns ] >> ]

\* nothing returned yet
NotLoaded == [err |-> "", sess |-> << >>]

(***************************************************************************)
(* The callers of LoadSession.  What a caller makes of the return is       *)
(*   by      the caller                                                    *)
(*   err     the error it reports ("" for none)                            *)
(*   shown   whether the session went on to the replay model (play, the    *)
(*           browse app) or to GenerateCast (export)                       *)
(***************************************************************************)
NoOutcome == [by |-> "", err |-> "", shown |-> FALSE]

\* playCmd.RunE from the call of session.LoadSession on
playCmd(ld) ==
  IF ld.err # "" THEN [by |-> "play", err |-> "loading session", shown |-> FALSE]
  ELSE IF Len(ld.sess[1].Turns) = 0
       THEN [by |-> "play", err |-> "session has no turns", shown |-> FALSE]
       ELSE [by |-> "play", err |-> "", shown |-> TRUE]

\* exportCmd.RunE from the call of session.LoadSession on
exportCmd(ld) ==
  IF ld.err # "" THEN [by |-> "export", err |-> "loading session", shown |-> FALSE]
  ELSE IF Len(ld.sess[1].Turns) = 0
       THEN [by |-> "export", err |-> "session has no turns", shown |-> FALSE]
       ELSE [by |-> "export", err |-> "", shown |-> TRUE]

\* AppModel.Update, case sessionLoadedMsg: m.err, or the replay screen
sessionLoadedMsg(ld) ==
  IF ld.err # "" THEN [by |-> "browse", err |-> ld.err, shown |-> FALSE]
  ELSE [by |-> "browse", err |-> "", shown |-> TRUE]

(***************************************************************************)
(* internal/ui/replay: computeDiff.  A text is a sequence of characters,   *)
(* "\n" among them; a diffOp is [Kind, Text] with Kind ' ', '+' or '-'.    *)
(***************************************************************************)
\* strings.Split(s, "\n")
RECURSIVE Split(_)
Split(str) ==
  IF \A k \in 1..Len(str) : str[k] # "\n" THEN <<str>>
  ELSE LET k == Min({ x \in 1..Len(str) : str[x] = "\n" })
       IN  <<SubSeq(str, 1, k - 1)>> \o Split(SubSeq(str, k + 1, Len(str)))

\* a faulty variant: the empty string is one empty line
splitLinesOneEmpty(str) == Split(str)

splitLines(str) == IF str = << >> THEN << >> ELSE Split(str)

\* a faulty variant: on a mismatch the smaller neighbour is taken
LCSTableOfMin(oldLines, newLines) ==
  LET dp[i \in 0..Len(oldLines), j \in 0..Len(newLines)] ==
        IF i = 0 \/ j = 0 THEN 0
        ELSE IF oldLines[i] = newLines[j] THEN dp[i - 1, j - 1] + 1
        ELSE IF dp[i - 1, j] >= dp[i, j - 1] THEN dp[i, j - 1]
        ELSE dp[i - 1, j]
  IN  dp

\* the LCS table dp of the two nested loops
LCSTable(oldLines, newLines) ==
  LET dp[i \in 0..Len(oldLines), j \in 0..Len(newLines)] ==
        IF i = 0 \/ j = 0 THEN 0
        ELSE IF oldLines[i] = newLines[j] THEN dp[i - 1, j - 1] + 1
        ELSE IF dp[i - 1, j] >= dp[i, j - 1] THEN dp[i - 1, j]
        ELSE dp[i, j - 1]
  IN  dp

diffOp(kind, text) == [Kind |-> kind, Text |-> text]

\* the locals after the table is filled: i, j := m, n
DiffStart(oldStr, newStr) ==
  LET oldLines == splitLines(oldStr)
      newLines == splitLines(newStr)
  IN  [ oldStr |-> oldStr, newStr |-> newStr,
        oldLines |-> oldLines, newLines |-> newLines,
        dp |-> LCSTable(oldLines, newLines),
        i |-> Len(oldLines), j |-> Len(newLines), ops |-> << >>,
        pc |-> "backtrack" ]

\* a faulty variant: the test for an added line comes before the test for
\* equal lines
BacktrackAddedFirst(d) ==
  IF d.j > 0 /\ (d.i = 0 \/ d.dp[d.i, d.j - 1] >= d.dp[d.i - 1, d.j])
  THEN [d EXCEPT !.ops = Append(@, diffOp("+", d.newLines[d.j])), !.j = @ - 1]
  ELSE IF d.i > 0 /\ d.j > 0 /\ d.oldLines[d.i] = d.newLines[d.j]
  THEN [d EXCEPT !.ops = Append(@, diffOp(" ", d.oldLines[d.i])),
                 !.i = @ - 1, !.j = @ - 1]
  ELSE [d EXCEPT !.ops = Append(@, diffOp("-", d.oldLines[d.i])), !.i = @ - 1]

\* a faulty variant: on equal scores the old line is consumed
BacktrackRemovedOnTie(d) ==
  IF d.i > 0 /\ d.j > 0 /\ d.oldLines[d.i] = d.newLines[d.j]
  THEN [d EXCEPT !.ops = Append(@, diffOp(" ", d.oldLines[d.i])),
                 !.i = @ - 1, !.j = @ - 1]
  ELSE IF d.j > 0 /\ (d.i = 0 \/ d.dp[d.i, d.j - 1] > d.dp[d.i - 1, d.j])
  THEN [d EXCEPT !.ops = Append(@, diffOp("+", d.newLines[d.j])), !.j = @ - 1]
  ELSE [d EXCEPT !.ops = Append(@, diffOp("-", d.oldLines[d.i])), !.i = @ - 1]

\* one iteration of  for i > 0 || j > 0 { ... }
Backtrack(d) ==
  IF d.i > 0 /\ d.j > 0 /\ d.oldLines[d.i] = d.newLines[d.j]
  THEN [d EXCEPT !.ops = Append(@, diffOp(" ", d.oldLines[d.i])),
                 !.i = @ - 1, !.j = @ - 1]
  ELSE IF d.j > 0 /\ (d.i = 0 \/ d.dp[d.i, d.j - 1] >= d.dp[d.i - 1, d.j])
  THEN [d EXCEPT !.ops = Append(@, diffOp("+", d.newLines[d.j])), !.j = @ - 1]
  ELSE [d EXCEPT !.ops = Append(@, diffOp("-", d.oldLines[d.i])), !.i = @ - 1]

\* a faulty variant: the list is returned as it was built
ReverseOpsNot(ops) == ops

\* "Reverse (we built it backwards)"
ReverseOps(ops) == [k \in 1..Len(ops) |-> ops[Len(ops) + 1 - k]]

\* the texts computeDiff is run on
Texts == UNION { [1..n -> {"a", "b", "\n"}] : n \in 0..MaxText }

\* computeDiff not called
DiffIdle ==
  [ oldStr |-> << >>, newStr |-> << >>, oldLines |-> << >>, newLines |-> << >>,
    dp |-> LCSTable(<< >>, << >>), i |-> 0, j |-> 0, ops |-> << >>, pc |-> "idle" ]

(***************************************************************************)
(* internal/session: QuickScan.  A line is what json.Unmarshal makes of it *)
(* as a quickRecord, or a line it rejects.  The raw content is a string    *)
(* (with or without a shell-output marker in it), an array (its items'     *)
(* types; "bad" is an item that is not an object, on which unmarshalling   *)
(* the array fails), a value of another shape, or absent.                  *)
(***************************************************************************)
QuickContents ==
  { [kind |-> "absent", marker |-> FALSE, items |-> << >>],
    [kind |-> "object", marker |-> FALSE, items |-> << >>],
    [kind |-> "string", marker |-> FALSE, items |-> << >>],
    [kind |-> "string", marker |-> TRUE, items |-> << >>] }
  \cup { [kind |-> "array", marker |-> FALSE, items |-> i] :
           i \in { << >>, <<"text">>, <<"tool_result">>, <<"">>, <<"bad">>,
                   <<"text", "tool_result">>, <<"tool_result", "text">>,
                   <<"image", "bad">> } }
  \cup { [kind |-> "array", marker |-> TRUE, items |-> <<"text">>] }

quickRecord ==
  [ valid : {TRUE}, Type : {"user", "assistant", "system"}, Slug : {"", "s1"},
    Timestamp : {"", "t1", "t2"}, IsMeta : BOOLEAN, Message : {FALSE},
    Role : {""}, Model : {""}, Content : {CHOOSE c \in QuickContents : c.kind = "absent"} ]
  \cup
  [ valid : {TRUE}, Type : {"user", "assistant"}, Slug : {""},
    Timestamp : {""}, IsMeta : BOOLEAN, Message : {TRUE},
    Role : {"user", "assistant"}, Model : {"", "m1"}, Content : QuickContents ]

\* an empty line or one json.Unmarshal rejects
QuickSkipped ==
  [ valid |-> FALSE, Type |-> "", Slug |-> "", Timestamp |-> "", IsMeta |-> FALSE,
    Message |-> FALSE, Role |-> "", Model |-> "",
    Content |-> CHOOSE c \in QuickContents : c.kind = "absent" ]

\* a faulty variant: meta messages are counted
CountsTurnWithMeta(r) ==
  /\ r.Type = "user" /\ r.Message /\ r.Role = "user"
  /\ \/ r.Content.kind = "string" /\ ~r.Content.marker
     \/ /\ r.Content.kind = "array"
        /\ \A k \in 1..Len(r.Content.items) : r.Content.items[k] # "bad"
        /\ Len(r.Content.items) > 0
        /\ r.Content.items[1] # "tool_result"

\* whether the record makes turnCount++ run
CountsTurn(r) ==
  /\ r.Type = "user" /\ r.Message /\ r.Role = "user"
  /\ ~r.IsMeta
  /\ \/ r.Content.kind = "string" /\ ~r.Content.marker
     \/ /\ r.Content.kind = "array"
        /\ \A k \in 1..Len(r.Content.items) : r.Content.items[k] # "bad"
        /\ Len(r.Content.items) > 0
        /\ r.Content.items[1] # "tool_result"

\* the body of  for scanner.Scan() { ... }  on one line
QuickScanLine(q, r) ==
  IF ~r.valid THEN [q EXCEPT !.n = @ + 1, !.last = r]
  ELSE [q EXCEPT
          !.n = @ + 1,
          !.last = r,
          !.firstTime = IF r.Timestamp # "" /\ @ = "" THEN r.Timestamp ELSE @,
          !.lastTime = IF r.Timestamp # "" THEN r.Timestamp ELSE @,
          !.slug = IF r.Slug # "" /\ @ = "" THEN r.Slug ELSE @,
          !.turnCount = IF CountsTurn(r) THEN @ + 1 ELSE @,
          !.model = IF r.Type = "assistant" /\ r.Message /\ r.Model # "" /\ @ = ""
                    THEN r.Model ELSE @]

\* the named results before the first line
QuickStart ==
  [ slug |-> "", model |-> "", firstTime |-> "", lastTime |-> "", turnCount |-> 0,
    n |-> 0, last |-> QuickSkipped, pc |-> "scan" ]

\* what json.Unmarshal puts in a quickRecord from a line of the file: the
\* fields of the line that quickRecord declares (isSidechain is not one of
\* them); a message has the role of its record's type; the model's lines
\* carry no timestamp
QuickOf(l) ==
  IF l.kind # "json" THEN QuickSkipped
  ELSE LET msg == l.rec.Message
           absent == CHOOSE c \in QuickContents : c.kind = "absent"
           markers == {BashStdoutOpen, BashStdoutClose, BashStderrOpen, BashStderrClose}
           content ==
             IF ~msg.ok THEN absent
             ELSE CASE msg.Content.kind = "string" ->
                         [kind |-> "string",
                          marker |-> \E k \in 1..Len(msg.Content.text) :
                                       msg.Content.text[k] \in markers,
                          items |-> << >>]
                    [] msg.Content.kind = "array" ->
                         [kind |-> "array", marker |-> FALSE,
                          items |-> [k \in 1..Len(msg.Content.items) |->
                                       msg.Content.items[k].Type]]
                    [] OTHER -> absent
       IN  [ valid |-> TRUE, Type |-> l.rec.Type, Slug |-> l.rec.Slug,
             Timestamp |-> "", IsMeta |-> l.rec.IsMeta, Message |-> msg.ok,
             Role |-> IF msg.ok THEN l.rec.Type ELSE "",
             Model |-> msg.Model, Content |-> content ]

\* DiscoverSessions keeps the file: QuickScan returned no error and a turn
\* count other than 0
Listed(q) == q.pc = "returned" /\ q.turnCount # 0

(***************************************************************************)
(* internal/ui/replay and internal/export on one Session.  Durations and   *)
(* times are in milliseconds.  A turn is [Timestamp, Blocks], a block      *)
(* [Type, ToolID].  The viewport's scroll position is not modelled; its    *)
(* content is what RenderTurn was given.                                   *)
(***************************************************************************)
Second == 1000

\* the Sessions a load has returned
Sessions ==
  { [Slug |-> "s0", Turns |-> << >>],
    [Slug |-> "s1", Turns |-> <<
       [Timestamp |-> 0, Blocks |-> <<[Type |-> BlockText, ToolID |-> ""]>>] >>],
    [Slug |-> "s2", Turns |-> <<
       [Timestamp |-> 5000, Blocks |-> <<[Type |-> BlockToolUse, ToolID |-> "t1"]>>],
       [Timestamp |-> 2000, Blocks |-> <<[Type |-> BlockToolResult, ToolID |-> "t1"]>>],
       [Timestamp |-> 2001, Blocks |-> <<[Type |-> BlockText, ToolID |-> ""]>>] >>],
    [Slug |-> "s3", Turns |-> <<
       [Timestamp |-> 1000,
        Blocks |-> <<[Type |-> BlockToolUse, ToolID |-> "t1"],
                     [Type |-> BlockToolResult, ToolID |-> "t1"]>>],
       [Timestamp |-> 4001,
        Blocks |-> <<[Type |-> BlockToolUse, ToolID |-> "t2"],
                     [Type |-> BlockText, ToolID |-> "t1"]>>],
       [Timestamp |-> 4001,
        Blocks |-> <<[Type |-> BlockThinking, ToolID |-> ""],
                     [Type |-> BlockToolUse, ToolID |-> ""]>>] >>] }

\* no Session yet
NoSession == [Slug |-> "", Turns |-> << >>]

\* the TimingMode constants
Timing ==
  [Realtime |-> "realtime", Compressed |-> "compressed", Fast |-> "fast",
   Instant |-> "instant"]

\* a faulty variant: fast mode does not halve
TurnDelayFastWhole(mode, realDuration) ==
  CASE mode = Timing.Realtime -> IF realDuration > 0 THEN realDuration ELSE 2 * Second
    [] mode = Timing.Compressed -> 2 * Second
    [] mode = Timing.Fast -> IF realDuration > 0 THEN realDuration ELSE Second
    [] mode = Timing.Instant -> Second \div 10
    [] OTHER -> 2 * Second

\* Options.TurnDelay
TurnDelay(mode, realDuration) ==
  CASE mode = Timing.Realtime -> IF realDuration > 0 THEN realDuration ELSE 2 * Second
    [] mode = Timing.Compressed -> 2 * Second
    [] mode = Timing.Fast -> IF realDuration > 0 THEN realDuration \div 2 ELSE Second
    [] mode = Timing.Instant -> Second \div 10
    [] OTHER -> 2 * Second

\* what a frame or the viewport shows of a turn; turn 0 is no turn
NoFrame == [turn |-> 0, of |-> 0, blocks |-> << >>, thinking |-> FALSE, expanded |-> {}]

\* RenderFrame: "" when the index is out of range, else the turn rendered
\* with nothing expanded
RenderFrame(ses, turnIndex) ==
  IF turnIndex < 0 \/ turnIndex >= Len(ses.Turns) THEN NoFrame
  ELSE [turn |-> turnIndex + 1, of |-> Len(ses.Turns),
        blocks |-> ses.Turns[turnIndex + 1].Blocks,
        thinking |-> FALSE, expanded |-> {}]

\* GenerateCast not called
CastIdle == [mode |-> "", i |-> 0, elapsed |-> 0, header |-> FALSE,
             events |-> << >>, pc |-> "idle"]

\* a faulty variant: no pause is added after a frame
GenerateCastFrameNoPause(c, ses) ==
  LET realDuration == IF c.i > 0
                      THEN ses.Turns[c.i + 1].Timestamp - ses.Turns[c.i].Timestamp
                      ELSE 0
      elapsed == c.elapsed + TurnDelay(c.mode, realDuration)
  IN  [ c |-> [c EXCEPT !.i = @ + 1,
                        !.events = Append(@, [time |-> elapsed,
                                              frame |-> RenderFrame(ses, c.i)]),
                        !.elapsed = elapsed],
        sess |-> ses ]

\* one iteration of  for i := range sess.Turns { ... }: the locals and the
\* Session after it
GenerateCastFrame(c, ses) ==
  LET realDuration == IF c.i > 0
                      THEN ses.Turns[c.i + 1].Timestamp - ses.Turns[c.i].Timestamp
                      ELSE 0
      delay == TurnDelay(c.mode, realDuration)
      elapsed == c.elapsed + delay
      frame == RenderFrame(ses, c.i)
  IN  [ c |-> [c EXCEPT !.i = @ + 1,
                        !.events = Append(@, [time |-> elapsed, frame |-> frame]),
                        !.elapsed = IF c.mode # Timing.Instant
                                    THEN elapsed + Second \div 2 ELSE elapsed],
        sess |-> ses ]

\* updateContent
updateContent(m, ses) ==
  IF Len(ses.Turns) = 0 THEN [m EXCEPT !.content = NoFrame]
  ELSE [m EXCEPT !.content =
          [turn |-> m.currentTurn + 1, of |-> Len(ses.Turns),
           blocks |-> ses.Turns[m.currentTurn + 1].Blocks,
           thinking |-> m.showThinking, expanded |-> m.expandedTools]]

\* initViewport
initViewport(m, ses) == [updateContent(m, ses) EXCEPT !.ready = TRUE]

\* New
New(ses, width, height) ==
  initViewport([currentTurn |-> 0, width |-> width, height |-> height,
                showThinking |-> FALSE, expandedTools |-> {}, showHelp |-> FALSE,
                autoPlay |-> FALSE, autoPlaySpeed |-> 2 * Second, ready |-> FALSE,
                content |-> NoFrame], ses)

\* the loop of the ExpandTool case: expandedTools[id] = !expandedTools[id]
\* for each tool block with an id, in order; the map is the set of the ids
\* it holds true
RECURSIVE ToggleTools(_, _)
ToggleTools(expanded, blocks) ==
  IF blocks = << >> THEN expanded
  ELSE LET block == Head(blocks)
       IN  IF block.Type \in {BlockToolUse, BlockToolResult} /\ block.ToolID # ""
           THEN ToggleTools(IF block.ToolID \in expanded
                            THEN expanded \ {block.ToolID}
                            ELSE expanded \cup {block.ToolID}, Tail(blocks))
           ELSE ToggleTools(expanded, Tail(blocks))

\* a faulty variant: the expand key drops the blocks of the current turn
\* from the Session
KeyMsgClearingBlocks(m, ses, k) ==
  IF k = "expand" /\ m.currentTurn + 1 \in 1..Len(ses.Turns) /\ ~m.showHelp
  THEN [m |-> m, sess |-> [ses EXCEPT !.Turns[m.currentTurn + 1].Blocks = << >>],
        cmd |-> "nil"]
  ELSE [m |-> m, sess |-> ses, cmd |-> "nil"]

\* a faulty variant: the next-turn key does not test for the last turn
KeyMsgNextUnguarded(m, ses, k) ==
  IF k = "next" /\ ~m.showHelp
  THEN [m |-> [m EXCEPT !.currentTurn = @ + 1], sess |-> ses, cmd |-> "nil"]
  ELSE [m |-> m, sess |-> ses, cmd |-> "nil"]

\* Update, case tea.KeyMsg: the Model, the Session and the command after it;
\* indexing Turns out of range panics
KeyMsg(m, ses, k) ==
  LET len == Len(ses.Turns)
      ret(n, cmd) == [m |-> n, sess |-> ses, cmd |-> cmd]
  IN  IF m.showHelp THEN ret([m EXCEPT !.showHelp = FALSE], "nil")
      ELSE CASE k = "quit" -> ret(m, "quit")
             [] k = "back" -> ret(m, "back")
             [] k = "next" ->
                  IF m.currentTurn < len - 1
                  THEN ret(updateContent([m EXCEPT !.currentTurn = @ + 1], ses), "nil")
                  ELSE ret(m, "nil")
             [] k = "prev" ->
                  IF m.currentTurn > 0
                  THEN ret(updateContent([m EXCEPT !.currentTurn = @ - 1], ses), "nil")
                  ELSE ret(m, "nil")
             [] k = "first" ->
                  ret(updateContent([m EXCEPT !.currentTurn = 0], ses), "nil")
             [] k = "last" ->
                  ret(updateContent([m EXCEPT !.currentTurn = len - 1], ses), "nil")
             [] k = "think" ->
                  ret(updateContent([m EXCEPT !.showThinking = ~@], ses), "nil")
             [] k = "expand" ->
                  IF m.currentTurn + 1 \notin 1..len THEN ret(m, "panic")
                  ELSE ret(updateContent(
                             [m EXCEPT !.expandedTools =
                                ToggleTools(@, ses.Turns[m.currentTurn + 1].Blocks)],
                             ses), "nil")
             [] k = "autoplay" ->
                  ret([m EXCEPT !.autoPlay = ~@], IF ~m.autoPlay THEN "tick" ELSE "nil")
             [] k = "faster" ->
                  IF m.autoPlaySpeed > Second \div 2
                  THEN ret([m EXCEPT !.autoPlaySpeed = @ - Second \div 2], "nil")
                  ELSE ret(m, "nil")
             [] k = "slower" ->
                  ret([m EXCEPT !.autoPlaySpeed = @ + Second \div 2], "nil")
             [] k = "help" -> ret([m EXCEPT !.showHelp = ~@], "nil")
             [] OTHER -> ret(m, "nil")

\* a faulty variant: a tick does not test whether autoplay is on
TickMsgIgnoringAutoPlay(m, ses) ==
  IF m.currentTurn < Len(ses.Turns) - 1
  THEN [m |-> updateContent([m EXCEPT !.currentTurn = @ + 1], ses),
        sess |-> ses, cmd |-> "tick"]
  ELSE [m |-> [m EXCEPT !.autoPlay = FALSE], sess |-> ses, cmd |-> "nil"]

\* Update, case autoPlayTick
TickMsg(m, ses) ==
  IF ~m.autoPlay THEN [m |-> m, sess |-> ses, cmd |-> "nil"]
  ELSE IF m.currentTurn < Len(ses.Turns) - 1
  THEN [m |-> updateContent([m EXCEPT !.currentTurn = @ + 1], ses),
        sess |-> ses, cmd |-> "tick"]
  ELSE [m |-> [m EXCEPT !.autoPlay = FALSE], sess |-> ses, cmd |-> "nil"]

\* Update, case tea.WindowSizeMsg
WindowSizeMsg(m, ses, width, height) ==
  [m |-> initViewport([m EXCEPT !.width = width, !.height = height], ses),
   sess |-> ses, cmd |-> "nil"]

\* View: "Loading...", the help, or the screen of the current turn
View(m, ses) ==
  IF ~m.ready \/ Len(ses.Turns) = 0 THEN [shows |-> "loading", content |-> NoFrame]
  ELSE IF m.showHelp THEN [shows |-> "help", content |-> NoFrame]
  ELSE IF m.currentTurn + 1 \notin 1..Len(ses.Turns)
  THEN [shows |-> "panic", content |-> NoFrame]
  ELSE [shows |-> "turn", content |-> m.content]

\* no replay screen yet
ReplayIdle ==
  [m |-> New(NoSession, 0, 0), ticks |-> 0,
   view |-> [shows |-> "", content |-> NoFrame], pc |-> "none"]

(***************************************************************************)
(* internal/session: session lookup.  An id, a slug and a query are        *)
(* sequences of characters.  A stored session is [ID, Slug]: the file      *)
(* <ID>.jsonl with the slug QuickScan reads from it, or a meta file of the *)
(* git branch.  A project directory lists its session files by name.       *)
(***************************************************************************)
HasPrefix(str, prefix) ==
  Len(prefix) <= Len(str) /\ SubSeq(str, 1, Len(prefix)) = prefix

\* the project directories: each holds some of the ids a, ab, b, in the
\* order of their names, each file with no slug or with the slug b
ProjectDirs ==
  LET ids == << <<"a">>, <<"a", "b">>, <<"b">> >>
      held == [1..3 -> {"none", "noslug", "slug"}]
      listing(h) ==
        LET at == SelectSeq(<<1, 2, 3>>, LAMBDA k : h[k] # "none")
        IN  [k \in 1..Len(at) |->
               [ID |-> ids[at[k]],
                Slug |-> IF h[at[k]] = "slug" THEN <<"b">> ELSE << >>]]
  IN  { listing(h) : h \in held }

\* what a lookup returns: the session and where it is, or the error
NotFound == [err |-> "session not found", proj |-> 0, ID |-> << >>, Slug |-> << >>]

\* the tests of a lookup on a stored session: its file is <query>.jsonl,
\* its id begins with the query, its slug is the query
Matches(se, how, query) ==
  CASE how = "exact" -> se.ID = query
    [] how = "prefix" -> HasPrefix(se.ID, query)
    [] how = "slug" -> se.Slug = query

\* the first session of the list that meets the test, with the project
FirstMatch(sessions, proj, how, query) ==
  LET at == { k \in 1..Len(sessions) : Matches(sessions[k], how, query) }
  IN  IF at = {} THEN NotFound
      ELSE [err |-> "", proj |-> proj, ID |-> sessions[Min(at)].ID,
            Slug |-> sessions[Min(at)].Slug]

\* GitSource.FindSession over the list ListSessions returns
FindSession(sessions, query) ==
  LET exact == FirstMatch(sessions, 1, "exact", query)
      prefix == FirstMatch(sessions, 1, "prefix", query)
      slug == FirstMatch(sessions, 1, "slug", query)
  IN  IF exact.err = "" THEN exact
      ELSE IF prefix.err = "" THEN prefix
      ELSE IF slug.err = "" THEN slug
      ELSE NotFound

\* FindSessionByID, the first loop from project p on: in each project the
\* file <query>.jsonl, then the first file whose id has the query as prefix
RECURSIVE FindByIDFrom(_, _, _)
FindByIDFrom(projects, p, query) ==
  IF p > Len(projects) THEN NotFound
  ELSE LET exact == FirstMatch(projects[p], p, "exact", query)
           prefix == FirstMatch(projects[p], p, "prefix", query)
       IN  IF exact.err = "" THEN exact
           ELSE IF prefix.err = "" THEN prefix
           ELSE FindByIDFrom(projects, p + 1, query)

\* FindSessionByID, the second loop from project p on: the first file whose
\* slug is the query
RECURSIVE FindBySlugFrom(_, _, _)
FindBySlugFrom(projects, p, query) ==
  IF p > Len(projects) THEN NotFound
  ELSE LET slug == FirstMatch(projects[p], p, "slug", query)
       IN  IF slug.err = "" THEN slug ELSE FindBySlugFrom(projects, p + 1, query)

\* FindSessionByID; isFile: the query is the path of a .jsonl file that
\* exists, which is returned as it is
FindSessionByID(projects, query, isFile) ==
  IF isFile THEN [err |-> "", proj |-> 0, ID |-> query, Slug |-> << >>]
  ELSE IF FindByIDFrom(projects, 1, query).err = "" THEN FindByIDFrom(projects, 1, query)
  ELSE FindBySlugFrom(projects, 1, query)

\* all the sessions, as one list
RECURSIVE Flatten(_)
Flatten(projects) ==
  IF projects = << >> THEN << >> ELSE Head(projects) \o Flatten(Tail(projects))

\* no lookup yet
FindIdle ==
  [projects |-> << >>, query |-> << >>, isFile |-> FALSE, by |-> "",
   result |-> NotFound, pc |-> "idle"]

(***************************************************************************)
(* internal/ui: the browse app.  A message is [type, of, err]: of is the   *)
(* project or the session it is about.  A command is the message its       *)
(* function will return, without the error, which is known when it ends.   *)
(***************************************************************************)
\* NewApp, with no command running
NewApp ==
  [ m |-> [screen |-> "projects", currentProject |-> "", projectList |-> "",
           sessionList |-> "", replayModel |-> "", err |-> ""],
    running |-> << >> ]

\* AppModel.Update on the messages of the app itself: the AppModel after
\* it and the command returned, "" for none
AppUpdate(m, msg) ==
  CASE msg.type = "WindowSizeMsg" ->
         [m |-> m,
          cmd |-> IF m.screen = "projects"
                  THEN <<[type |-> "projectsLoadedMsg", of |-> ""]>> ELSE << >>]
    [] msg.type = "projectsLoadedMsg" ->
         [m |-> IF msg.err # "" THEN [m EXCEPT !.err = msg.err]
                ELSE [m EXCEPT !.projectList = "loaded"],
          cmd |-> << >>]
    [] msg.type = "sessionsLoadedMsg" ->
         [m |-> IF msg.err # "" THEN [m EXCEPT !.err = msg.err]
                ELSE [m EXCEPT !.sessionList = msg.of],
          cmd |-> << >>]
    [] msg.type = "sessionLoadedMsg" ->
         [m |-> IF msg.err # "" THEN [m EXCEPT !.err = msg.err]
                ELSE [m EXCEPT !.screen = "replay", !.replayModel = msg.of],
          cmd |-> << >>]
    [] msg.type = "ProjectSelected" ->
         [m |-> [m EXCEPT !.currentProject = msg.of, !.screen = "sessions"],
          cmd |-> <<[type |-> "sessionsLoadedMsg", of |-> msg.of]>>]
    [] msg.type = "SessionSelected" ->
         [m |-> m, cmd |-> <<[type |-> "sessionLoadedMsg", of |-> msg.of]>>]
    [] msg.type = "GoBack" ->
         [m |-> [m EXCEPT !.screen = "projects"],
          cmd |-> <<[type |-> "projectsLoadedMsg", of |-> ""]>>]
    [] msg.type = "BackToList" ->
         [m |-> [m EXCEPT !.screen = "sessions"],
          cmd |-> <<[type |-> "sessionsLoadedMsg", of |-> m.currentProject]>>]

\* the messages the screen's own model returns on the user's keys, and the
\* resize of the window
UserMsgs(m) ==
  {[type |-> "WindowSizeMsg", of |-> "", err |-> ""]}
  \cup (IF m.screen = "projects" /\ m.projectList = "loaded"
        THEN {[type |-> "ProjectSelected", of |-> p, err |-> ""] : p \in {"p1", "p2"}}
        ELSE {})
  \cup (IF m.screen = "sessions"
        THEN {[type |-> "GoBack", of |-> "", err |-> ""]}
             \cup (IF m.sessionList # ""
                   THEN {[type |-> "SessionSelected", of |-> x, err |-> ""] :
                           x \in {"s1", "s2"}}
                   ELSE {})
        ELSE {})
  \cup (IF m.screen = "replay"
        THEN {[type |-> "BackToList", of |-> "", err |-> ""]}
        ELSE {})

(***************************************************************************)
(* The state machine.                                                      *)
(***************************************************************************)
Init ==
  /\ turns = << >>
  /\ currentTurn = << >>
  /\ turnNum = 0
  /\ pendingDuration = 0
  /\ sess = [Slug |-> "", CWD |-> "", Model |-> ""]
  /\ rec = NoRecord
  /\ nread = 0
  /\ pc = "loop"
  /\ noteInTurn = 0
  /\ records = << >>
  /\ line = EmptyLine
  /\ nlines = 0
  /\ parseErr = ""
  /\ parsePc = "scan"
  /\ loaded = NotLoaded
  /\ shadow = << >>
  /\ outcome = NoOutcome
  /\ diff = DiffIdle
  /\ quick = QuickStart
  /\ session = NoSession
  /\ replay = ReplayIdle
  /\ cast = CastIdle
  /\ find = FindIdle
  /\ app = NewApp

SetState(s) ==
  /\ turns' = s.turns
  /\ currentTurn' = s.currentTurn
  /\ turnNum' = s.turnNum
  /\ pendingDuration' = s.pendingDuration
  /\ sess' = s.sess

\* a duration note segmentTurns takes a pending duration from
IsDurationNote(r) ==
  r.Type = "system" /\ r.Subtype = "turn_duration" /\ r.DurationMs > 0

\* the loop reads record r
Read(r) ==
  /\ nread < MaxRecords
  /\ SetState(LoopBody(State, r))
  /\ rec' = r
  /\ nread' = nread + 1
  /\ pc' = "loop"
  /\ noteInTurn' =
       IF turnNum' # turnNum THEN 0
       ELSE IF IsDurationNote(r) /\ currentTurn # << >> THEN r.DurationMs
       ELSE noteInTurn
  /\ UNCHANGED exceptSegment

ReadUser ==
  /\ pc = "loop"
  /\ \E r \in UserRecords : Read(r)

ReadAssistant ==
  /\ pc = "loop"
  /\ \E r \in AssistantRecords : Read(r)

ReadSystem ==
  /\ pc = "loop"
  /\ \E r \in SystemRecords : Read(r)

ReadOther ==
  /\ pc = "loop"
  /\ \E r \in OtherRecords : Read(r)

\* the list is exhausted: the code after the loop, and the return
EndOfStream ==
  /\ pc = "loop"
  /\ SetState(FinalizeLast(State))
  /\ rec' = NoRecord
  /\ nread' = nread
  /\ pc' = "done"
  /\ noteInTurn' = noteInTurn
  /\ UNCHANGED exceptSegment

Next == ReadUser \/ ReadAssistant \/ ReadSystem \/ ReadOther \/ EndOfStream

Spec == Init /\ [][Next]_vars

(***************************************************************************)
(* Parse and LoadSession as a state machine: one step per line scanned,    *)
(* one for the end of the stream, one for LoadSession's use of the result. *)
(***************************************************************************)
\* a JSON line whose type is none of the declared record types
IsUnrecognized(l) == l.kind = "json" /\ l.rec.Type \notin RecordTypes

\* scanner.Scan() meets line l: what Parse does with it
ScanStep(l) ==
  /\ nlines < MaxLines
  /\ line' = l
  /\ nlines' = nlines + 1
  /\ IF Scan(l).ok
     THEN /\ records' = ParseLine(records, l)
          /\ shadow' = IF IsUnrecognized(l) THEN ParseLine(shadow, MalformedLine)
                        ELSE ParseLine(shadow, l)
          /\ parseErr' = ""
          /\ parsePc' = "scan"
     ELSE /\ records' = records
          /\ shadow' = shadow
          /\ parseErr' = Scan(l).err
          /\ parsePc' = "returned"
  /\ UNCHANGED <<loaded, outcome>>

\* Parse alone on line l
ScanOn(l) ==
  /\ ScanStep(l)
  /\ UNCHANGED exceptParse

ScanLine ==
  /\ parsePc = "scan"
  /\ \E l \in Lines : ScanOn(l)

\* scanner.Scan() meets the end of the stream: Parse returns records, nil
ScanEOF ==
  /\ parsePc = "scan"
  /\ parsePc' = "returned"
  /\ parseErr' = ""
  /\ UNCHANGED <<records, line, nlines, loaded, shadow, outcome>>
  /\ UNCHANGED exceptParse

\* LoadSession, from the return of parser.ParseFile on
Load ==
  /\ parsePc = "returned"
  /\ loaded' = LoadSession(records, parseErr)
  /\ parsePc' = "loaded"
  /\ UNCHANGED <<records, line, nlines, parseErr, shadow, outcome>>
  /\ UNCHANGED exceptParse

\* the caller has LoadSession's return and acts on it
Returned(made) ==
  /\ outcome' = made
  /\ parsePc' = "surfaced"
  /\ UNCHANGED <<records, line, nlines, parseErr, loaded, shadow>>
  /\ UNCHANGED exceptParse

\* the play command
Play ==
  /\ parsePc = "loaded"
  /\ Returned(playCmd(loaded))

\* the export command
Export ==
  /\ parsePc = "loaded"
  /\ Returned(exportCmd(loaded))

\* the browse app receives the sessionLoadedMsg of its loadSession command
Browse ==
  /\ parsePc = "loaded"
  /\ Returned(sessionLoadedMsg(loaded))

ParseNext == ScanLine \/ ScanEOF \/ Load \/ Play \/ Export \/ Browse

ParseSpec == Init /\ [][ParseNext]_vars

(***************************************************************************)
(* computeDiff as a state machine: the call, with the split and the table, *)
(* one step per iteration of the backtracking loop, and the return.        *)
(***************************************************************************)
DiffCall ==
  /\ diff.pc = "idle"
  /\ \E oldStr \in Texts, newStr \in Texts : diff' = DiffStart(oldStr, newStr)
  /\ UNCHANGED exceptDiff

DiffBacktrack ==
  /\ diff.pc = "backtrack"
  /\ diff.i > 0 \/ diff.j > 0
  /\ diff' = Backtrack(diff)
  /\ UNCHANGED exceptDiff

DiffReturn ==
  /\ diff.pc = "backtrack"
  /\ ~(diff.i > 0 \/ diff.j > 0)
  /\ diff' = [diff EXCEPT !.ops = ReverseOps(@), !.pc = "done"]
  /\ UNCHANGED exceptDiff

DiffNext == DiffCall \/ DiffBacktrack \/ DiffReturn

DiffSpec == Init /\ [][DiffNext]_vars

(***************************************************************************)
(* QuickScan as a state machine: one step per line, and the return at the  *)
(* end of the file.                                                        *)
(***************************************************************************)
QuickLine ==
  /\ quick.pc = "scan"
  /\ quick.n < MaxLines
  /\ \E r \in quickRecord \cup {QuickSkipped} : quick' = QuickScanLine(quick, r)
  /\ UNCHANGED exceptQuick

QuickReturn ==
  /\ quick.pc = "scan"
  /\ quick' = [quick EXCEPT !.pc = "returned"]
  /\ UNCHANGED exceptQuick

QuickNext == QuickLine \/ QuickReturn

QuickSpec == Init /\ [][QuickNext]_vars

(***************************************************************************)
(* One session file under both readers: DiscoverSessions has QuickScan     *)
(* read it, and LoadSession has Parse read it; a step is one line of the   *)
(* file, met by both scanners, whose buffers have the same size.           *)
(***************************************************************************)
FileLine ==
  /\ parsePc = "scan"
  /\ quick.pc = "scan"
  /\ \E l \in Lines :
       /\ ScanStep(l)
       /\ quick' = IF Scan(l).ok THEN QuickScanLine(quick, QuickOf(l))
                   ELSE [quick EXCEPT !.pc = "failed"]
  /\ UNCHANGED exceptDiscover

\* the end of the file: Parse returns records, nil and QuickScan its counts
FileEnd ==
  /\ parsePc = "scan"
  /\ quick.pc = "scan"
  /\ parsePc' = "returned"
  /\ parseErr' = ""
  /\ quick' = [quick EXCEPT !.pc = "returned"]
  /\ UNCHANGED <<records, line, nlines, loaded, shadow, outcome>>
  /\ UNCHANGED exceptDiscover

DiscoverNext == FileLine \/ FileEnd \/ Load

DiscoverSpec == Init /\ [][DiscoverNext]_vars

(***************************************************************************)
(* The replay screen and the export as a state machine: a load returns a   *)
(* Session and the replay Model is made for it; then key presses, ticks,   *)
(* resizes and Views of the screen interleave with the steps of            *)
(* GenerateCast on the same Session.                                       *)
(***************************************************************************)
SessionLoaded ==
  /\ replay.pc = "none"
  /\ \E s \in Sessions :
       /\ session' = s
       /\ replay' = [replay EXCEPT !.m = New(s, 80, 24), !.pc = "replay"]
  /\ UNCHANGED cast
  /\ UNCHANGED exceptView

\* the runtime's handling of what Update returned
Updated(r, ticks) ==
  /\ session' = r.sess
  /\ replay' = [replay EXCEPT
                  !.m = r.m,
                  !.ticks = IF r.cmd = "tick" THEN ticks + 1 ELSE ticks,
                  !.pc = CASE r.cmd = "quit" -> "quit"
                           [] r.cmd = "back" -> "list"
                           [] r.cmd = "panic" -> "panic"
                           [] OTHER -> @]
  /\ UNCHANGED cast
  /\ UNCHANGED exceptView

KeyPress ==
  /\ replay.pc = "replay"
  /\ \E k \in { "quit", "back", "next", "prev", "first", "last", "think",
                "expand", "autoplay", "faster", "slower", "help", "x" } :
       /\ k = "slower" => replay.m.autoPlaySpeed + Second \div 2 <= MaxAutoPlaySpeed
       /\ k = "autoplay" => replay.ticks < MaxTicks
       /\ Updated(KeyMsg(replay.m, session, k), replay.ticks)

Tick ==
  /\ replay.pc = "replay"
  /\ replay.ticks > 0
  /\ Updated(TickMsg(replay.m, session), replay.ticks - 1)

Resize ==
  /\ replay.pc = "replay"
  /\ \E size \in {<<80, 24>>, <<120, 40>>} :
       Updated(WindowSizeMsg(replay.m, session, size[1], size[2]), replay.ticks)

Show ==
  /\ replay.pc = "replay"
  /\ replay' = [replay EXCEPT
                  !.view = View(replay.m, session),
                  !.pc = IF View(replay.m, session).shows = "panic" THEN "panic" ELSE @]
  /\ UNCHANGED <<session, cast>>
  /\ UNCHANGED exceptView

CastStart ==
  /\ replay.pc # "none"
  /\ cast.pc = "idle"
  /\ \E mode \in {Timing.Realtime, Timing.Compressed, Timing.Fast, Timing.Instant, "slow"} :
       cast' = [CastIdle EXCEPT !.mode = mode, !.header = TRUE, !.pc = "frames"]
  /\ UNCHANGED <<session, replay>>
  /\ UNCHANGED exceptView

CastFrame ==
  /\ cast.pc = "frames"
  /\ cast.i < Len(session.Turns)
  /\ cast' = GenerateCastFrame(cast, session).c
  /\ session' = GenerateCastFrame(cast, session).sess
  /\ UNCHANGED replay
  /\ UNCHANGED exceptView

CastReturn ==
  /\ cast.pc = "frames"
  /\ cast.i >= Len(session.Turns)
  /\ cast' = [cast EXCEPT !.pc = "returned"]
  /\ UNCHANGED <<session, replay>>
  /\ UNCHANGED exceptView

ViewNext ==
  \/ SessionLoaded
  \/ KeyPress
  \/ Tick
  \/ Resize
  \/ Show
  \/ CastStart
  \/ CastFrame
  \/ CastReturn

ViewSpec == Init /\ [][ViewNext]_vars

(***************************************************************************)
(* Session lookup as a state machine: a query is looked up in the project  *)
(* directories by FindSessionByID, or in the sessions of the git branch by *)
(* GitSource.FindSession.                                                  *)
(***************************************************************************)
FindLocal ==
  /\ find.pc = "idle"
  /\ \E n \in 0..MaxProjects :
       \E projects \in [1..n -> ProjectDirs],
          query \in {<<"a">>, <<"a", "b">>, <<"b">>, <<"c">>},
          isFile \in BOOLEAN :
         find' = [projects |-> projects, query |-> query, isFile |-> isFile,
                  by |-> "local",
                  result |-> FindSessionByID(projects, query, isFile),
                  pc |-> "found"]
  /\ UNCHANGED exceptFind

FindGit ==
  /\ find.pc = "idle"
  /\ \E n \in 0..MaxProjects :
       \E projects \in [1..n -> ProjectDirs],
          query \in {<<"a">>, <<"a", "b">>, <<"b">>, <<"c">>} :
         find' = [projects |-> projects, query |-> query, isFile |-> FALSE,
                  by |-> "git",
                  result |-> FindSession(Flatten(projects), query),
                  pc |-> "found"]
  /\ UNCHANGED exceptFind

FindNext == FindLocal \/ FindGit

FindSpec == Init /\ [][FindNext]_vars

(***************************************************************************)
(* The browse app as a state machine: the user's messages are handled as   *)
(* they come, the commands they start run beside the app, and each ends at *)
(* any later time, with or without an error, with its message.             *)
(***************************************************************************)
AppUser ==
  /\ \E msg \in UserMsgs(app.m) :
       LET r == AppUpdate(app.m, msg)
       IN  /\ Len(app.running) + Len(r.cmd) <= MaxLoads
           /\ app' = [m |-> r.m, running |-> app.running \o r.cmd]
  /\ UNCHANGED exceptApp

AppCommandEnds ==
  /\ \E k \in 1..Len(app.running), err \in {"", "failed"} :
       LET msg == [type |-> app.running[k].type, of |-> app.running[k].of,
                   err |-> err]
       IN  app' = [m |-> AppUpdate(app.m, msg).m,
                   running |-> SubSeq(app.running, 1, k - 1)
                                 \o SubSeq(app.running, k + 1, Len(app.running))]
  /\ UNCHANGED exceptApp

AppNext == AppUser \/ AppCommandEnds

AppSpec == Init /\ [][AppNext]_vars

(***************************************************************************)
(* Properties of segmentTurns.                                             *)
(*                                                                         *)
(* A step "reads r" when it is an iteration of the loop on record r: the   *)
(* step's rec' is r and nread grows by one.                                *)
(***************************************************************************)
Reads == nread' = nread + 1

\* the message content of the record being read
ContentRead == rec'.Message.Content

\* a user record that passed the meta check and whose message parsed
ReadsUserMessage ==
  /\ Reads
  /\ rec'.Type = "user"
  /\ ~rec'.IsMeta
  /\ rec'.Message.ok

\* the turns so far, the open one last; after the return, the result
AllTurns == IF pc = "done" THEN turns ELSE turns \o currentTurn

\* the part of the state the turn sequence is computed from
turnVars == <<turns, currentTurn, turnNum, pendingDuration>>

\* the open turn as it is appended to turns when the next turn opens
ClosedTurn ==
  [currentTurn[1] EXCEPT !.Duration = IF pendingDuration > 0 THEN pendingDuration ELSE @]

\* the step closes the open turn, if any, and opens a turn on text
ClosesAndOpens(text) ==
  /\ turns' = IF currentTurn = << >> THEN turns ELSE Append(turns, ClosedTurn)
  /\ Len(currentTurn') = 1
  /\ currentTurn'[1].UserText = text
  /\ currentTurn'[1].Number = Len(turns') + 1
  /\ currentTurn'[1].Blocks = << >>
  /\ currentTurn'[1].Duration = 0
  /\ currentTurn'[1].Model = ""
  /\ turnNum' = turnNum + 1

\* the step neither opens nor closes a turn and appends blocks to the open one
AppendsOnly(blocks) ==
  /\ turns' = turns
  /\ turnNum' = turnNum
  /\ pendingDuration' = pendingDuration
  /\ Len(currentTurn') = Len(currentTurn)
  /\ currentTurn # << >> =>
       currentTurn' = <<[currentTurn[1] EXCEPT !.Blocks = @ \o blocks]>>

(***************************************************************************)
(* C1.  The turns carry the numbers 1, 2, ..., N in order, without gap or  *)
(* repeat: at every point of the walk (the open turn last) and in the      *)
(* returned list.                                                          *)
(***************************************************************************)
C1_NumbersContiguous == \A i \in 1..Len(AllTurns) : AllTurns[i].Number = i

C1_Witness == pc = "done" /\ Len(turns) >= 3 /\ turns[3].Number = 3

(***************************************************************************)
(* C2.  A user record is judged by the first rule, in the order meta,      *)
(* shell-output, shell-input, tool-result array, slash command, non-empty  *)
(* text, empty text, whose condition it satisfies, and the step has that   *)
(* rule's effect and no other's.                                           *)
(***************************************************************************)
\* the conditions of the rules, each on its own
C2_Conditions(r) ==
  LET content == r.Message.Content
  IN  << r.IsMeta,
         IsBashOutput(content),
         IsBashInput(content),
         IsToolResults(content),
         CommandName(content).ok,
         UserText(content) # << >>,
         TRUE >>

\* the earliest rule whose condition holds
C2_Rule(r) == Min({ k \in 1..7 : C2_Conditions(r)[k] })

\* what tells the effect of rule k from the effects of the others
C2_Effect(k, r) ==
  LET content == r.Message.Content
      added == SubSeq(currentTurn'[1].Blocks, Len(currentTurn[1].Blocks) + 1,
                      Len(currentTurn'[1].Blocks))
  IN  CASE k \in {1, 7} -> UNCHANGED turnVars
        [] k = 2 ->
             /\ UNCHANGED <<turns, turnNum, pendingDuration>>
             /\ Len(currentTurn') = Len(currentTurn)
             /\ currentTurn # << >> =>
                  /\ currentTurn'[1].UserText = currentTurn[1].UserText
                  /\ Len(added) <= 1
                  /\ \A i \in 1..Len(added) : added[i].Type = BlockText
        [] k = 3 ->
             /\ turnNum' = turnNum + 1
             /\ currentTurn'[1].Number = turnNum + 1
             /\ Head(currentTurn'[1].UserText) = "!"
        [] k = 4 ->
             /\ UNCHANGED <<turns, turnNum, pendingDuration>>
             /\ Len(currentTurn') = Len(currentTurn)
             /\ currentTurn # << >> =>
                  /\ currentTurn'[1].UserText = currentTurn[1].UserText
                  /\ \A i \in 1..Len(added) : added[i].Type = BlockToolResult
        [] k = 5 ->
             /\ turnNum' = turnNum + 1
             /\ currentTurn'[1].Number = turnNum + 1
             /\ currentTurn'[1].UserText = CommandName(content).name
        [] k = 6 ->
             /\ turnNum' = turnNum + 1
             /\ currentTurn'[1].Number = turnNum + 1
             /\ currentTurn'[1].UserText = UserText(content)

C2_RulePriority ==
  [][ (Reads /\ rec'.Type = "user" /\ (rec'.IsMeta \/ rec'.Message.ok))
        => C2_Effect(C2_Rule(rec'), rec') ]_vars

\* a text that is both a shell input and a shell output was read with a turn
\* open, and had the effect of the shell-output rule
C2_Witness ==
  /\ rec.Type = "user"
  /\ ~rec.IsMeta
  /\ IsBashOutput(rec.Message.Content)
  /\ IsBashInput(rec.Message.Content)
  /\ turnNum = 1
  /\ currentTurn # << >>
  /\ Len(currentTurn[1].Blocks) = 1
  /\ currentTurn[1].Blocks[1].Text = <<"o">>

(***************************************************************************)
(* C3.  Reading a meta-flagged user record, whatever its content, changes  *)
(* nothing the turn sequence is computed from: the closed turns, the open  *)
(* turn with its text, blocks and duration, the turn counter and the       *)
(* pending duration.  The walk after it is the walk without it.            *)
(***************************************************************************)
C3_MetaIgnored ==
  [][ (Reads /\ rec'.Type = "user" /\ rec'.IsMeta)
        => UNCHANGED turnVars /\ sess'.Model = sess.Model ]_vars

\* a meta record whose text would open a turn was read while a turn was open
\* and a duration was pending
C3_Witness ==
  /\ rec.Type = "user"
  /\ rec.IsMeta
  /\ UserText(rec.Message.Content) # << >>
  /\ ~IsBashOutput(rec.Message.Content)
  /\ currentTurn # << >>
  /\ currentTurn[1].Blocks # << >>
  /\ pendingDuration > 0

(***************************************************************************)
(* C4.  A non-meta user record whose content is a plain text, neither a    *)
(* shell output nor a shell input nor a slash command: if the text is      *)
(* non-empty the step closes the open turn, if any, and opens exactly one  *)
(* new turn with that text as UserText; if the text is empty the step      *)
(* changes nothing (no turn opened or closed, no block, the pending        *)
(* duration kept).                                                         *)
(***************************************************************************)
C4_IsPlainText(r) ==
  /\ r.Message.Content.kind = "string"
  /\ ~IsBashOutput(r.Message.Content)
  /\ ~IsBashInput(r.Message.Content)
  /\ ~CommandName(r.Message.Content).ok

C4_PlainText ==
  [][ (ReadsUserMessage /\ C4_IsPlainText(rec'))
        => IF ContentRead.text # << >>
           THEN ClosesAndOpens(ContentRead.text)
           ELSE UNCHANGED turnVars ]_vars

\* the plain text "hi" was read with a turn open: that turn is closed and the
\* new turn 2 is open on "hi"
C4_Witness ==
  /\ rec.Type = "user"
  /\ ~rec.IsMeta
  /\ rec.Message.ok
  /\ rec.Message.Content = StringContent(TextHi)
  /\ Len(turns) = 1
  /\ currentTurn # << >>
  /\ currentTurn[1].Number = 2
  /\ currentTurn[1].UserText = <<"h", "i">>

(***************************************************************************)
(* C5.  A shell-input user record closes the open turn, if any, with the   *)
(* pending duration put on the closed turn, and opens a new turn whose     *)
(* UserText is "!" followed by the literal command.                        *)
(***************************************************************************)
C5_IsShellInput(r) ==
  /\ ~IsBashOutput(r.Message.Content)
  /\ IsBashInput(r.Message.Content)

\* what stands between the opening and the closing tag
C5_Command(text) == [i \in 1..(Len(text) - 2) |-> text[i + 1]]

C5_ShellInput ==
  [][ (ReadsUserMessage /\ C5_IsShellInput(rec'))
        => /\ ClosesAndOpens(<<"!">> \o C5_Command(ContentRead.text))
           /\ currentTurn # << >> => pendingDuration' = 0
           /\ currentTurn = << >> => pendingDuration' = pendingDuration ]_vars

\* <bash-input>ls</bash-input> was read with a turn open and 5 s pending: the
\* closed turn has the 5 s, the new turn is "!ls" and nothing is pending
C5_Witness ==
  /\ rec.Type = "user"
  /\ ~rec.IsMeta
  /\ rec.Message.ok
  /\ rec.Message.Content = StringContent(TextBashInput)
  /\ Len(turns) = 1
  /\ turns[1].Duration = 5000
  /\ currentTurn # << >>
  /\ currentTurn[1].UserText = <<"!", "l", "s">>
  /\ currentTurn[1].Duration = 0
  /\ pendingDuration = 0

(***************************************************************************)
(* C6.  A shell-output user record never opens or closes a turn.  With no  *)
(* turn open it is dropped.  With a turn open it appends to that turn one  *)
(* TextBlock holding stdout and stderr, joined by a newline when both are  *)
(* non-empty, and no block when both are empty.                            *)
(***************************************************************************)
C6_Output(content) ==
  LET out == ParseBashOutput(content)
  IN  IF out.stdout # << >> /\ out.stderr # << >>
      THEN out.stdout \o <<"\n">> \o out.stderr
      ELSE out.stdout \o out.stderr

C6_Blocks(content) ==
  IF C6_Output(content) = << >> THEN << >>
  ELSE <<[NoBlock EXCEPT !.Type = BlockText, !.Text = C6_Output(content)]>>

C6_ShellOutput ==
  [][ (ReadsUserMessage /\ IsBashOutput(ContentRead))
        => AppendsOnly(C6_Blocks(ContentRead)) ]_vars

\* stdout "o" and stderr "e" were read with a turn open: one block "o\ne"
C6_Witness ==
  /\ rec.Type = "user"
  /\ ~rec.IsMeta
  /\ rec.Message.ok
  /\ rec.Message.Content = StringContent(TextStdoutStderr)
  /\ currentTurn # << >>
  /\ Len(currentTurn[1].Blocks) = 1
  /\ currentTurn[1].Blocks[1].Type = BlockText
  /\ currentTurn[1].Blocks[1].Text = <<"o", "\n", "e">>

(***************************************************************************)
(* C7.  A user record with a <command-name>/name</command-name> marker     *)
(* that matches no earlier rule closes the open turn and opens a new turn  *)
(* whose UserText is /name, not the raw text of the message.               *)
(***************************************************************************)
C7_IsSlashCommand(r) ==
  /\ ~IsBashOutput(r.Message.Content)
  /\ ~IsBashInput(r.Message.Content)
  /\ ~IsToolResults(r.Message.Content)
  /\ CommandName(r.Message.Content).ok

\* name starts with "/" and stands in text between the two marker tags
C7_IsMarked(text, name) ==
  /\ Len(name) >= 2
  /\ name[1] = "/"
  /\ \E i \in 1..Len(text) :
       /\ i + Len(name) + 1 <= Len(text)
       /\ text[i] = CommandNameOpen
       /\ SubSeq(text, i + 1, i + Len(name)) = name
       /\ text[i + Len(name) + 1] = CommandNameClose

C7_SlashCommand ==
  [][ (ReadsUserMessage /\ C7_IsSlashCommand(rec'))
        => /\ ClosesAndOpens(currentTurn'[1].UserText)
           /\ C7_IsMarked(ContentRead.text, currentTurn'[1].UserText)
           /\ \A i \in 1..Len(currentTurn'[1].UserText) :
                ~StartsWithLt(currentTurn'[1].UserText[i]) ]_vars

\* <command-name>/c</command-name>x was read with a turn open: turn 2 is "/c"
C7_Witness ==
  /\ rec.Type = "user"
  /\ ~rec.IsMeta
  /\ rec.Message.ok
  /\ rec.Message.Content = StringContent(TextCommand)
  /\ Len(turns) = 1
  /\ currentTurn # << >>
  /\ currentTurn[1].Number = 2
  /\ currentTurn[1].UserText = <<"/", "c">>

(***************************************************************************)
(* C8.  A tool-result array acts only on the turn open when it is read.    *)
(* With a turn open it appends one ToolResultBlock per tool result, in     *)
(* array order, whether or not the result's id is that of an earlier tool  *)
(* invocation of the turn.  With no turn open it changes nothing, so no    *)
(* block can come of it in a turn opened later.  It never opens or closes  *)
(* a turn.                                                                 *)
(***************************************************************************)
C8_IsToolResultArray(r) ==
  /\ ~IsBashOutput(r.Message.Content)
  /\ ~IsBashInput(r.Message.Content)
  /\ IsToolResults(r.Message.Content)
  /\ r.Message.Content.ok

C8_IsResult(item) == item.Type = "tool_result"

\* the blocks appended by the step
BlocksAdded ==
  SubSeq(currentTurn'[1].Blocks, Len(currentTurn[1].Blocks) + 1,
         Len(currentTurn'[1].Blocks))

C8_ToolResults ==
  [][ (ReadsUserMessage /\ C8_IsToolResultArray(rec'))
        => LET results == SelectSeq(ContentRead.items, C8_IsResult)
           IN  /\ UNCHANGED <<turns, turnNum, pendingDuration>>
               /\ currentTurn = << >> => currentTurn' = << >>
               /\ currentTurn # << >> =>
                    /\ currentTurn' = <<[currentTurn[1] EXCEPT !.Blocks = @ \o BlocksAdded]>>
                    /\ Len(BlocksAdded) = Len(results)
                    /\ \A k \in 1..Len(results) :
                         /\ BlocksAdded[k].Type = BlockToolResult
                         /\ BlocksAdded[k].ToolID = results[k].ToolUseID
                         /\ BlocksAdded[k].Text = extractToolResultContent(results[k].Content)
                         /\ BlocksAdded[k].IsError = (results[k].IsError = "true") ]_vars

\* no block of the open turn is a tool invocation with this id
C8_Unmatched(id) ==
  \A i \in 1..Len(currentTurn[1].Blocks) :
    ~(currentTurn[1].Blocks[i].Type = BlockToolUse /\ currentTurn[1].Blocks[i].ToolID = id)

\* the array (t9, t1) was read in a turn that has no tool invocation: both
\* results are recorded, in array order
C8_Witness ==
  /\ rec.Type = "user"
  /\ ~rec.IsMeta
  /\ rec.Message.ok
  /\ rec.Message.Content = ArrayContent(TRUE, <<ResultErr, TextEntry, ResultOk>>)
  /\ currentTurn # << >>
  /\ Len(currentTurn[1].Blocks) = 2
  /\ currentTurn[1].Blocks[1].Type = BlockToolResult
  /\ currentTurn[1].Blocks[1].ToolID = "t9"
  /\ currentTurn[1].Blocks[1].Text = <<"a", "\n", "b">>
  /\ currentTurn[1].Blocks[1].IsError
  /\ currentTurn[1].Blocks[2].ToolID = "t1"
  /\ C8_Unmatched("t9")

(***************************************************************************)
(* C9.  An assistant record read with no turn open produces no block and   *)
(* sets no model.  Read with a turn open it appends to that turn, in       *)
(* content order, a TextBlock for each text entry that is non-empty after  *)
(* trimming, a ThinkingBlock for each non-empty thinking entry and a       *)
(* ToolInvocationBlock for each tool_use entry, and nothing for any other  *)
(* entry.                                                                  *)
(***************************************************************************)
C9_MakesBlock(cb) ==
  \/ cb.Type = "text" /\ TrimSpace(cb.Text) # << >>
  \/ cb.Type = "thinking" /\ cb.Thinking # << >>
  \/ cb.Type = "tool_use"

\* block b is the block of content entry cb
C9_BlockOf(b, cb) ==
  \/ /\ cb.Type = "text"
     /\ b = [NoBlock EXCEPT !.Type = BlockText, !.Text = TrimSpace(cb.Text)]
  \/ /\ cb.Type = "thinking"
     /\ b = [NoBlock EXCEPT !.Type = BlockThinking, !.Text = cb.Thinking]
  \/ /\ cb.Type = "tool_use"
     /\ b.Type = BlockToolUse
     /\ b.ToolName = cb.Name
     /\ b.ToolID = cb.ID
     /\ b.Text = << >>

C9_Assistant ==
  [][ (Reads /\ rec'.Type = "assistant")
        => /\ UNCHANGED <<turns, turnNum, pendingDuration>>
           /\ currentTurn = << >> => currentTurn' = << >> /\ sess' = sess
           /\ (currentTurn # << >> /\ rec'.Message.ok) =>
                LET entries == SelectSeq(rec'.Message.Blocks, C9_MakesBlock)
                IN  /\ Len(currentTurn') = 1
                    /\ currentTurn'[1].Blocks = currentTurn[1].Blocks \o BlocksAdded
                    /\ currentTurn'[1].UserText = currentTurn[1].UserText
                    /\ Len(BlocksAdded) = Len(entries)
                    /\ \A k \in 1..Len(entries) : C9_BlockOf(BlocksAdded[k], entries[k]) ]_vars

\* the content (blank text, empty thinking, image, text "a") was read with a
\* turn open: the only block is the text "a"
C9_Witness ==
  /\ rec.Type = "assistant"
  /\ rec.Message.ok
  /\ Len(rec.Message.Blocks) = 4
  /\ currentTurn # << >>
  /\ currentTurn[1].Blocks = <<[NoBlock EXCEPT !.Type = BlockText, !.Text = <<"a">>]>>

(***************************************************************************)
(* C10.  A turn's Model is the model name of the first assistant record of *)
(* the turn that has a non-empty one: a turn opens with no Model, an       *)
(* assistant record sets it only while it is empty, and nothing else       *)
(* changes it.  The session's Model is the Model of the earliest turn that *)
(* has one.                                                                *)
(***************************************************************************)
\* the turns that have a model
C10_WithModel == { i \in 1..Len(AllTurns) : AllTurns[i].Model # "" }

C10_SessionModel ==
  sess.Model = IF C10_WithModel = {} THEN "" ELSE AllTurns[Min(C10_WithModel)].Model

\* the step stays in the open turn
C10_SameTurn ==
  /\ currentTurn # << >>
  /\ currentTurn' # << >>
  /\ currentTurn'[1].Number = currentTurn[1].Number

C10_ModelStep ==
  /\ (currentTurn' # << >> /\ ~C10_SameTurn) => currentTurn'[1].Model = ""
  /\ C10_SameTurn =>
       currentTurn'[1].Model =
         IF /\ Reads
            /\ rec'.Type = "assistant"
            /\ rec'.Message.ok
            /\ currentTurn[1].Model = ""
         THEN rec'.Message.Model
         ELSE currentTurn[1].Model

C10_FirstModel == [] C10_SessionModel /\ [][C10_ModelStep]_vars

\* turn 1 took m1 from its first assistant record and kept it when an
\* assistant record of model m2 was read
C10_Witness ==
  /\ rec.Type = "assistant"
  /\ rec.Message.ok
  /\ rec.Message.Model = "m2"
  /\ currentTurn # << >>
  /\ currentTurn[1].Model = "m1"
  /\ sess.Model = "m1"

(***************************************************************************)
(* Durations.  noteInTurn holds, in tenths of a millisecond, the value of  *)
(* the last positive duration note read while the open turn was open.  A   *)
(* step closes a turn when it appends it to turns: the step that opens the *)
(* next turn, or the end of the stream.                                    *)
(***************************************************************************)
ClosesTurn == Len(turns') = Len(turns) + 1

\* the turn the step closes, as it stands in the result
JustClosed == turns'[Len(turns')]

(***************************************************************************)
(* C11.  As claimed: when a positive duration note was read while turn T   *)
(* was open, T is closed with a Duration equal to the value of the last    *)
(* such note.  The code cuts the note's value to whole milliseconds, so a  *)
(* note of 0.5 ms closes the turn with Duration 0.                         *)
(***************************************************************************)
C11_ExactValue ==
  [][ (ClosesTurn /\ noteInTurn > 0) => JustClosed.Duration * 10 = noteInTurn ]_vars

(***************************************************************************)
(* C11, amended.  When a positive duration note was read while turn T was  *)
(* open, T is closed, by the next turn-opening record or by the end of the *)
(* stream, with a Duration equal to the value of the last such note cut to *)
(* whole milliseconds; user "hi", an assistant text and a note of 5000 ms  *)
(* give one turn of Duration 5 s.                                          *)
(***************************************************************************)
C11_LastNote ==
  [][ (ClosesTurn /\ noteInTurn > 0)
        => /\ JustClosed.Duration * 10 <= noteInTurn
           /\ noteInTurn < (JustClosed.Duration + 1) * 10
           /\ JustClosed.Number = currentTurn[1].Number
           /\ JustClosed.UserText = currentTurn[1].UserText
           /\ JustClosed.Blocks = currentTurn[1].Blocks ]_vars

\* "hi", an assistant text and a note of 5000 ms were read, and the stream
\* ended: one turn, of one text block and Duration 5 s
C11_Witness ==
  /\ pc = "done"
  /\ nread = 3
  /\ noteInTurn = 50000
  /\ Len(turns) = 1
  /\ turns[1].UserText = TextHi
  /\ Len(turns[1].Blocks) = 1
  /\ turns[1].Blocks[1].Type = BlockText
  /\ turns[1].Duration = 5000

(***************************************************************************)
(* C12.  As claimed: a duration is only placed on a turn that was open     *)
(* when the note was read, so a turn during which no positive note was     *)
(* read is closed with no Duration.  The code keeps a note read with no    *)
(* turn open as pending and places it on the first turn when that turn is  *)
(* closed.                                                                 *)
(***************************************************************************)
C12_OnlyOpenTurn ==
  [][ (ClosesTurn /\ noteInTurn = 0) => JustClosed.Duration = 0 ]_vars

(***************************************************************************)
(* C13.  The turns already closed are frozen: no step changes or removes a *)
(* turn of the output sequence, whatever record is read afterwards and     *)
(* also at the end of the stream.                                          *)
(***************************************************************************)
C13_Frozen ==
  [][ /\ Len(turns') >= Len(turns)
      /\ \A i \in 1..Len(turns) : turns'[i] = turns[i] ]_vars

\* turn 1 was closed with its blocks and no duration; the 5 s note read
\* afterwards, in turn 2, left it so
C13_Witness ==
  /\ Len(turns) = 1
  /\ turns[1].Blocks # << >>
  /\ turns[1].Duration = 0
  /\ currentTurn # << >>
  /\ currentTurn[1].Number = 2
  /\ IsDurationNote(rec)
  /\ pendingDuration = 5000

(***************************************************************************)
(* C15.  A user or assistant record whose payload does not parse under the *)
(* shape its type asks for (the message is no UserMessage or               *)
(* AssistantMessage, the content of a user message is neither a string nor *)
(* an array, or the array is no list of tool results) changes nothing of   *)
(* the segmenter's state: the closed turns, the open turn with its blocks  *)
(* and model, the pending duration and the turn counter.  The walk after   *)
(* it is the walk without it.                                              *)
(***************************************************************************)
C15_Unparsable(r) ==
  \/ r.Type \in {"user", "assistant"} /\ ~r.Message.ok
  \/ r.Type = "user" /\ r.Message.Content.kind = "other"
  \/ r.Type = "user" /\ r.Message.Content.kind = "array" /\ ~r.Message.Content.ok

C15_ParseFailure ==
  [][ (Reads /\ C15_Unparsable(rec'))
        => /\ UNCHANGED turnVars
           /\ sess'.Model = sess.Model
           /\ sess'.CWD = sess.CWD ]_vars

\* an assistant record that does not parse, carrying a model and a text, was
\* read in a turn that has neither, with 5 s pending
C15_Witness ==
  /\ rec.Type = "assistant"
  /\ ~rec.Message.ok
  /\ rec.Message.Blocks # << >>
  /\ currentTurn # << >>
  /\ currentTurn[1].Blocks = << >>
  /\ currentTurn[1].Model = ""
  /\ pendingDuration = 5000

(***************************************************************************)
(* Properties of Parse and LoadSession, under ParseSpec.  A step scans a   *)
(* line when nlines grows by one; line' is that line.                      *)
(***************************************************************************)
Scans == nlines' = nlines + 1

\* what LoadSession returns on the records Parse would have returned with
\* every line of an unrecognized type replaced by a malformed line
LoadedOnShadow == LoadSession(shadow, parseErr)

(***************************************************************************)
(* C16.  The records Parse returns are a subsequence of the lines: a step  *)
(* either leaves the list as it is or appends, at its end, the record of   *)
(* the line just scanned; there are never more records than lines scanned. *)
(***************************************************************************)
C16_Subsequence ==
  /\ [] (Len(records) <= nlines)
  /\ [][ IF Scans
         THEN \/ records' = records
              \/ line'.kind = "json" /\ records' = Append(records, line'.rec)
         ELSE records' = records ]_vars

\* four lines were scanned and two of them, a user record and after it an
\* assistant record, were returned in this order
C16_Witness ==
  /\ parsePc = "returned"
  /\ nlines = 4
  /\ Len(records) = 2
  /\ records[1].Type = "user"
  /\ records[2].Type = "assistant"

(***************************************************************************)
(* C17.  A malformed line is skipped: scanning it leaves the record list   *)
(* as it is, sets no error and does not end the scan, so the records, and  *)
(* with them the loaded session, are those of the stream without the line. *)
(* Parse returns an error only for an oversize line.                       *)
(***************************************************************************)
C17_Malformed ==
  /\ [] (parseErr # "" => line.kind = "toolong")
  /\ [][ (Scans /\ line'.kind = "malformed")
           => /\ records' = records
              /\ parseErr' = ""
              /\ parsePc' = "scan" ]_vars

\* a stream that ends with a malformed line was loaded into a session of one
\* turn
C17_Witness ==
  /\ parsePc = "loaded"
  /\ line = MalformedLine
  /\ loaded.err = ""
  /\ Len(loaded.sess[1].Turns) = 1

(***************************************************************************)
(* C18.  Parse never holds a record of type progress or                    *)
(* file-history-snapshot nor one with IsSidechain set, and scanning a line *)
(* of such a record leaves the record list as it is and does not end the   *)
(* scan: the loaded session is that of the stream without the line.        *)
(***************************************************************************)
C18_IsNoise(r) ==
  r.Type \in {RecordTypeProgress, RecordTypeSnapshot} \/ r.IsSidechain

C18_NoNoise ==
  /\ [] (\A i \in 1..Len(records) : ~C18_IsNoise(records[i]))
  /\ [][ (Scans /\ line'.kind = "json" /\ C18_IsNoise(line'.rec))
           => /\ records' = records
              /\ parseErr' = ""
              /\ parsePc' = "scan" ]_vars

\* a user record "hi" flagged as sidechain came last in a stream that was
\* loaded into a session of one turn
C18_Witness ==
  /\ parsePc = "loaded"
  /\ line.kind = "json"
  /\ line.rec.IsSidechain
  /\ line.rec.Type = "user"
  /\ loaded.err = ""
  /\ Len(loaded.sess[1].Turns) = 1

C20_TooLong ==
  /\ [] ((parsePc = "loaded" /\ parseErr # "")
           => loaded.err = "parsing session file" /\ loaded.sess = << >>)
  /\ [][ (Scans /\ line'.kind = "toolong")
           => /\ records' = records
              /\ parseErr' = ErrTooLong
              /\ parsePc' = "returned" ]_vars
  /\ [][ parsePc # "scan"
           => /\ nlines' = nlines
              /\ records' = records
              /\ parseErr' = parseErr ]_vars

\* an oversize line came second, after a user record; more lines could have
\* followed; LoadSession failed and returned no Session
C20_Witness ==
  /\ parsePc = "loaded"
  /\ line = TooLongLine
  /\ nlines = 2
  /\ Len(records) = 1
  /\ records[1].Type = "user"
  /\ loaded.err = "parsing session file"
  /\ loaded.sess = << >>

(***************************************************************************)
(* C21.  As claimed: a load that produces zero turns is a failure of its   *)
(* own kind on every load path: LoadSession does not return such a session *)
(* as a success, and the play command, the export command and the browse   *)
(* app each report that the session has no turns instead of showing it.    *)
(* The code checks this in the two commands only.  (Stated for streams     *)
(* whose records all are of a declared type.)                              *)
(***************************************************************************)
C21_NoTurnsSurfaced ==
  records = shadow =>
    /\ (parsePc \in {"loaded", "surfaced"} /\ loaded.err = "")
         => Len(loaded.sess[1].Turns) > 0
    /\ (parsePc = "surfaced" /\ loaded.err = "" /\ Len(loaded.sess[1].Turns) = 0)
         => (outcome.err # "" /\ ~outcome.shown)

(***************************************************************************)
(* Properties of computeDiff, under DiffSpec.                              *)
(***************************************************************************)
\* the texts of the operations of the given kinds, in order
TextsOf(ops, kinds) ==
  LET kept == SelectSeq(ops, LAMBDA op : op.Kind \in kinds)
  IN  [k \in 1..Len(kept) |-> kept[k].Text]

\* how many operations of a kind
CountOf(ops, kind) == Len(SelectSeq(ops, LAMBDA op : op.Kind = kind))

\* lines joined by newlines
RECURSIVE Joined(_)
Joined(lines) ==
  IF lines = << >> THEN << >>
  ELSE IF Len(lines) = 1 THEN lines[1]
  ELSE lines[1] \o <<"\n">> \o Joined(Tail(lines))

\* the length of a longest common subsequence, by its definition
RECURSIVE LCSLen(_, _)
LCSLen(a, b) ==
  IF a = << >> \/ b = << >> THEN 0
  ELSE IF Head(a) = Head(b) THEN 1 + LCSLen(Tail(a), Tail(b))
  ELSE LET x == LCSLen(Tail(a), b)
           y == LCSLen(a, Tail(b))
       IN  IF x >= y THEN x ELSE y

(***************************************************************************)
(* C24.  computeDiff(x, x) returns Context operations only, one for each   *)
(* line of x, in order.                                                    *)
(***************************************************************************)
C24_SameText ==
  (diff.pc = "done" /\ diff.oldStr = diff.newStr) =>
    /\ Len(diff.ops) = Len(diff.oldLines)
    /\ \A k \in 1..Len(diff.ops) :
         diff.ops[k] = [Kind |-> " ", Text |-> diff.oldLines[k]]
    /\ Joined(TextsOf(diff.ops, {" "})) = diff.oldStr

\* a text of three different lines was diffed against itself
C24_Witness ==
  /\ diff.pc = "done"
  /\ diff.oldStr = <<"a", "\n", "\n", "b">>
  /\ diff.newStr = diff.oldStr
  /\ Len(diff.ops) = 3

(***************************************************************************)
(* C25.  With an empty string holding zero lines: the diff of two empty    *)
(* strings is empty, the diff of "a" against the empty string is one       *)
(* Removed "a", and the diff of the empty string against "a" is one Added  *)
(* "a".                                                                    *)
(***************************************************************************)
C25_EmptyString ==
  diff.pc = "done" =>
    /\ (diff.oldStr = << >> /\ diff.newStr = << >>) => diff.ops = << >>
    /\ (diff.oldStr = <<"a">> /\ diff.newStr = << >>)
         => diff.ops = <<[Kind |-> "-", Text |-> <<"a">>]>>
    /\ (diff.oldStr = << >> /\ diff.newStr = <<"a">>)
         => diff.ops = <<[Kind |-> "+", Text |-> <<"a">>]>>

\* "a" was diffed against the empty string
C25_Witness ==
  /\ diff.pc = "done"
  /\ diff.oldStr = <<"a">>
  /\ diff.newStr = << >>
  /\ Len(diff.ops) = 1

(***************************************************************************)
(* C26.  The Context and Added operations, in order, are the lines of the  *)
(* new text, and the Context and Removed operations, in order, are the     *)
(* lines of the old text; joined by newlines they give back the two texts. *)
(***************************************************************************)
C26_Reconstructs ==
  diff.pc = "done" =>
    /\ TextsOf(diff.ops, {" ", "+"}) = diff.newLines
    /\ TextsOf(diff.ops, {" ", "-"}) = diff.oldLines
    /\ Joined(TextsOf(diff.ops, {" ", "+"})) = diff.newStr
    /\ Joined(TextsOf(diff.ops, {" ", "-"})) = diff.oldStr

\* a diff with a kept line, a removed line and an added line
C26_Witness ==
  /\ diff.pc = "done"
  /\ diff.oldStr = <<"a", "\n", "b">>
  /\ diff.newStr = <<"\n", "a">>
  /\ CountOf(diff.ops, " ") = 1
  /\ CountOf(diff.ops, "+") = 1
  /\ CountOf(diff.ops, "-") = 1

(***************************************************************************)
(* C27.  The script is minimal: it has as many Context operations as a     *)
(* longest common subsequence of the two line lists has lines, so the      *)
(* Added and Removed operations are as few as can be.                      *)
(***************************************************************************)
C27_Minimal ==
  diff.pc = "done" =>
    LET lcs == LCSLen(diff.oldLines, diff.newLines)
    IN  /\ CountOf(diff.ops, " ") = lcs
        /\ CountOf(diff.ops, "+") = Len(diff.newLines) - lcs
        /\ CountOf(diff.ops, "-") = Len(diff.oldLines) - lcs

\* old lines a, "", b against new lines "", b, "": the two common lines
\* are kept, one line is removed and one is added
C27_Witness ==
  /\ diff.pc = "done"
  /\ diff.oldStr = <<"a", "\n", "\n", "b">>
  /\ diff.newStr = <<"\n", "b", "\n">>
  /\ CountOf(diff.ops, " ") = 2
  /\ CountOf(diff.ops, "+") + CountOf(diff.ops, "-") = 2

(***************************************************************************)
(* C28.  When the backtrack stands on a cell (i, j) with i > 0 and j > 0   *)
(* whose two lines differ and whose upper and left neighbours in the table *)
(* are equal, it classifies new line j as Added and moves left.            *)
(***************************************************************************)
C28_TieAdds ==
  [][ ( /\ diff.pc = "backtrack"
        /\ diff.i > 0
        /\ diff.j > 0
        /\ diff.oldLines[diff.i] # diff.newLines[diff.j]
        /\ diff.dp[diff.i - 1, diff.j] = diff.dp[diff.i, diff.j - 1] )
      => /\ diff'.ops = Append(diff.ops, [Kind |-> "+", Text |-> diff.newLines[diff.j]])
         /\ diff'.i = diff.i
         /\ diff'.j = diff.j - 1 ]_vars

\* the backtrack has just left a tie cell of two different lines
C28_Witness ==
  /\ diff.pc = "backtrack"
  /\ diff.i > 0
  /\ diff.j < Len(diff.newLines)
  /\ diff.oldLines[diff.i] # diff.newLines[diff.j + 1]
  /\ diff.dp[diff.i - 1, diff.j + 1] = diff.dp[diff.i, diff.j]
  /\ diff.dp[diff.i, diff.j] > 0
  /\ diff.ops # << >>
  /\ diff.ops[Len(diff.ops)] = [Kind |-> "+", Text |-> diff.newLines[diff.j + 1]]

(***************************************************************************)
(* C29.  The backtrack with the opposite tie-break: on equal scores the    *)
(* old line is consumed as Removed.                                        *)
(***************************************************************************)
RECURSIVE OppositeBacktrack(_)
OppositeBacktrack(d) ==
  IF ~(d.i > 0 \/ d.j > 0) THEN ReverseOps(d.ops)
  ELSE IF d.i > 0 /\ d.j > 0 /\ d.oldLines[d.i] = d.newLines[d.j]
  THEN OppositeBacktrack([d EXCEPT !.ops = Append(@, [Kind |-> " ", Text |-> d.oldLines[d.i]]),
                                   !.i = @ - 1, !.j = @ - 1])
  ELSE IF d.i > 0 /\ (d.j = 0 \/ d.dp[d.i - 1, d.j] >= d.dp[d.i, d.j - 1])
  THEN OppositeBacktrack([d EXCEPT !.ops = Append(@, [Kind |-> "-", Text |-> d.oldLines[d.i]]),
                                   !.i = @ - 1])
  ELSE OppositeBacktrack([d EXCEPT !.ops = Append(@, [Kind |-> "+", Text |-> d.newLines[d.j]]),
                                   !.j = @ - 1])

\* the script of the opposite tie-break for the finished call
OppositeOps ==
  OppositeBacktrack([diff EXCEPT !.i = Len(diff.oldLines),
                                 !.j = Len(diff.newLines), !.ops = << >>])

\* the positions, among the operations of the given kinds, of the
\* operations of kind `kind`: the old lines Removed for kinds {' ', '-'},
\* the new lines Added for kinds {' ', '+'}
Classified(ops, kinds, kind) ==
  LET side == SelectSeq(ops, LAMBDA op : op.Kind \in kinds)
  IN  { k \in 1..Len(side) : side[k].Kind = kind }

\* As claimed: the opposite tie-break classifies the same old lines as
\* Removed and the same new lines as Added.
C29_SameClassification ==
  diff.pc = "done" =>
    /\ Classified(diff.ops, {" ", "-"}, "-") = Classified(OppositeOps, {" ", "-"}, "-")
    /\ Classified(diff.ops, {" ", "+"}, "+") = Classified(OppositeOps, {" ", "+"}, "+")

\* C29, amended.  The opposite tie-break gives a script that also rebuilds
\* both texts and has the same number of Context, Added and Removed
\* operations; which lines it marks may differ.
C29_SameCounts ==
  diff.pc = "done" =>
    /\ TextsOf(OppositeOps, {" ", "+"}) = diff.newLines
    /\ TextsOf(OppositeOps, {" ", "-"}) = diff.oldLines
    /\ \A kind \in {" ", "+", "-"} :
         CountOf(OppositeOps, kind) = CountOf(diff.ops, kind)

\* two lines were swapped: the two tie-breaks mark different lines
C29_Witness ==
  /\ diff.pc = "done"
  /\ diff.oldStr = <<"a", "\n", "b">>
  /\ diff.newStr = <<"b", "\n", "a">>
  /\ diff.ops # OppositeOps
  /\ Classified(diff.ops, {" ", "-"}, "-") = {1}
  /\ Classified(OppositeOps, {" ", "-"}, "-") = {2}

(***************************************************************************)
(* Properties of QuickScan, under QuickSpec.                               *)
(***************************************************************************)
\* the line just scanned is a user record that is not meta
UserNotMeta(r) ==
  r.valid /\ r.Type = "user" /\ r.Message /\ r.Role = "user" /\ ~r.IsMeta

(***************************************************************************)
(* C23.  As claimed: the turn count goes up only on a user record that is  *)
(* not meta and whose content is a plain-text string without shell-output  *)
(* markers; no record with content of another shape makes it go up.        *)
(***************************************************************************)
C23_OnlyPlainText ==
  [][ quick'.turnCount # quick.turnCount
      => /\ UserNotMeta(quick'.last)
         /\ quick'.last.Content.kind = "string"
         /\ ~quick'.last.Content.marker ]_vars

(***************************************************************************)
(* C23, amended.  The turn count goes up, by one, exactly on a user record *)
(* that is not meta and whose content is either a string without           *)
(* shell-output markers or an array of items, not empty, whose first item  *)
(* is not a tool result; it is never changed otherwise.                    *)
(***************************************************************************)
C23_StringOrArray ==
  [][ /\ quick'.turnCount \in {quick.turnCount, quick.turnCount + 1}
      /\ quick'.turnCount # quick.turnCount
         <=> /\ quick'.n = quick.n + 1
             /\ UserNotMeta(quick'.last)
             /\ \/ quick'.last.Content.kind = "string" /\ ~quick'.last.Content.marker
                \/ /\ quick'.last.Content.kind = "array"
                   /\ quick'.last.Content.items # << >>
                   /\ \A k \in 1..Len(quick'.last.Content.items) :
                        quick'.last.Content.items[k] # "bad"
                   /\ quick'.last.Content.items[1] # "tool_result" ]_vars

\* the only line read was a user record with an array of a text item and a
\* tool result, and it was counted
C23_Witness ==
  /\ quick.n = 1
  /\ quick.turnCount = 1
  /\ UserNotMeta(quick.last)
  /\ quick.last.Content.kind = "array"
  /\ quick.last.Content.items = <<"text", "tool_result">>

(***************************************************************************)
(* Properties of the replay screen and the export, under ViewSpec.         *)
(***************************************************************************)
\* the real duration GenerateCast computes for the turn of index i
RealDuration(i) ==
  IF i > 0 THEN session.Turns[i + 1].Timestamp - session.Turns[i].Timestamp ELSE 0

(***************************************************************************)
(* C22.  Once a load has returned the Session, no step of the replay       *)
(* screen (Update on a key, a tick or a resize; View) and no step of the   *)
(* export (GenerateCast with RenderFrame) changes it, and what the screen  *)
(* shows and what the frames written hold are the blocks the Session has   *)
(* for those turns.                                                        *)
(***************************************************************************)
C22_SessionUnchanged ==
  /\ [][replay.pc # "none" => session' = session]_vars
  /\ [](\A k \in 1..Len(cast.events) :
          /\ cast.events[k].frame.turn = k
          /\ cast.events[k].frame.blocks = session.Turns[k].Blocks)
  /\ [](replay.view.shows = "turn"
          => replay.view.content.blocks = session.Turns[replay.view.content.turn].Blocks)

\* on the three-turn session a tool was expanded on the screen, the second
\* turn was shown, and the export wrote its three frames
C22_Witness ==
  /\ Len(session.Turns) = 3
  /\ replay.m.expandedTools # {}
  /\ replay.view.shows = "turn"
  /\ replay.view.content.turn = 2
  /\ cast.pc = "returned"
  /\ Len(cast.events) = 3

(***************************************************************************)
(* C30.  The delay GenerateCast gets from TurnDelay for a real duration d: *)
(* 2 s in compressed mode; d in realtime mode when d > 0, else 2 s; half   *)
(* of d (the integer quotient) in fast mode when d > 0, else 1 s; 100 ms   *)
(* in instant mode; 2 s in a mode that is none of the four.                *)
(***************************************************************************)
C30_TurnDelay ==
  [][ cast'.i = cast.i + 1
      => LET d == RealDuration(cast.i)
             delay == cast'.events[cast'.i].time - cast.elapsed
         IN  /\ cast.mode = "compressed" => delay = 2000
             /\ cast.mode = "realtime" => delay = IF d > 0 THEN d ELSE 2000
             /\ cast.mode = "fast" => IF d > 0 THEN 2 * delay \in {d, d - 1}
                                      ELSE delay = 1000
             /\ cast.mode = "instant" => delay = 100
             /\ cast.mode \notin {"compressed", "realtime", "fast", "instant"}
                  => delay = 2000 ]_vars

\* in fast mode the second turn, 3001 ms after the first, was delayed by
\* 1500 ms, and the third, 0 ms after the second, by 1 s
C30_Witness ==
  /\ cast.mode = "fast"
  /\ Len(session.Turns) = 3
  /\ Len(cast.events) = 3
  /\ RealDuration(1) = 3001
  /\ cast.events[2].time - (cast.events[1].time + 500) = 1500
  /\ cast.events[3].time - (cast.events[2].time + 500) = 1000

(***************************************************************************)
(* C31.  As claimed: in the cast the first frame event has timestamp 0 and *)
(* every later frame event has a timestamp greater than 0.  The code adds  *)
(* the first turn's delay before it writes the first event.                *)
(***************************************************************************)
C31_FirstFrameAtZero ==
  \A k \in 1..Len(cast.events) :
    IF k = 1 THEN cast.events[k].time = 0 ELSE cast.events[k].time > 0

(***************************************************************************)
(* C32.  As claimed: in compressed mode each frame event's timestamp is    *)
(* exactly 2 s after the previous frame event's.  The code puts 2.5 s      *)
(* between them.                                                           *)
(***************************************************************************)
C32_CompressedTwoSeconds ==
  cast.mode = "compressed" =>
    \A k \in 2..Len(cast.events) :
      cast.events[k].time = cast.events[k - 1].time + 2000

(***************************************************************************)
(* C40.  GenerateCast writes the header and then one output event per      *)
(* turn, in turn order: after i iterations there are i events, the k-th    *)
(* for turn k, and at the return as many as turns.  The event timestamps   *)
(* strictly increase, in every timing mode and whatever the turns'         *)
(* timestamps.                                                             *)
(***************************************************************************)
C40_OneEventPerTurn ==
  /\ cast.pc # "idle" => cast.header
  /\ Len(cast.events) = cast.i
  /\ cast.pc = "returned" => Len(cast.events) = Len(session.Turns)
  /\ \A k \in 1..Len(cast.events) :
       /\ cast.events[k].frame.turn = k
       /\ cast.events[k].frame.of = Len(session.Turns)
       /\ k > 1 => cast.events[k].time > cast.events[k - 1].time

\* in fast mode, turns stamped 5000, 2000 and 2001 ms: the third turn's
\* delay is 0 and its event still comes later than the second's
C40_Witness ==
  /\ cast.pc = "returned"
  /\ cast.mode = "fast"
  /\ Len(cast.events) = 3
  /\ session.Turns[2].Timestamp < session.Turns[1].Timestamp
  /\ RealDuration(2) = 1
  /\ cast.events[3].time = cast.events[2].time + 500

\* whether the screen draws the block expanded
Expanded(m, block) == block.ToolID \in m.expandedTools

\* the tool-use and tool-result blocks of the turn on the screen
ToolBlocks ==
  LET blocks == session.Turns[replay.m.currentTurn + 1].Blocks
  IN  { blocks[k] : k \in { x \in 1..Len(blocks) :
                              blocks[x].Type \in {"tool_use", "tool_result"} } }

\* a turn is on the replay screen and the help is not showing
TurnOnScreen ==
  /\ replay.pc = "replay"
  /\ ~replay.m.showHelp
  /\ replay.m.currentTurn + 1 \in 1..Len(session.Turns)

(***************************************************************************)
(* C34.  As claimed: the expand key flips the expanded state of every      *)
(* tool-use and tool-result block of the current turn, and a second press  *)
(* restores the state before the first.  The code toggles once per block   *)
(* by tool id, so a tool use and its result, which share their id, are     *)
(* toggled twice and stay as they were; a block without an id is never     *)
(* toggled.                                                                *)
(***************************************************************************)
C34_ExpandFlips ==
  TurnOnScreen =>
    LET once == KeyMsg(replay.m, session, "expand").m
        twice == KeyMsg(once, session, "expand").m
    IN  /\ \A block \in ToolBlocks :
             Expanded(once, block) = ~Expanded(replay.m, block)
        /\ twice.expandedTools = replay.m.expandedTools

(***************************************************************************)
(* C35.  For a session with at least one turn, currentTurn stays within    *)
(* 0 .. len(Turns)-1 after any keys, ticks and resizes; the next-turn key  *)
(* at the last turn and the previous-turn key at the first leave it as it  *)
(* is.                                                                     *)
(***************************************************************************)
C35_CurrentTurnInRange ==
  (replay.pc # "none" /\ Len(session.Turns) >= 1) =>
    /\ replay.m.currentTurn \in 0..(Len(session.Turns) - 1)
    /\ replay.m.currentTurn = Len(session.Turns) - 1
         => KeyMsg(replay.m, session, "next").m.currentTurn = replay.m.currentTurn
    /\ replay.m.currentTurn = 0
         => KeyMsg(replay.m, session, "prev").m.currentTurn = replay.m.currentTurn

\* on a three-turn session the last turn is on the screen, at the larger
\* window size, with autoplay off and no tick pending
C35_Witness ==
  /\ Len(session.Turns) = 3
  /\ replay.pc = "replay"
  /\ replay.m.currentTurn = 2
  /\ replay.m.content.turn = 3
  /\ ~replay.m.autoPlay
  /\ replay.ticks = 0
  /\ replay.m.width = 120

(***************************************************************************)
(* C36.  A tick that arrives while autoplay is on advances currentTurn by  *)
(* exactly one and schedules the next tick as long as the last turn is not *)
(* reached; at the last turn it switches autoplay off, leaves currentTurn  *)
(* and schedules nothing.  A tick that arrives while autoplay is off       *)
(* changes nothing and schedules nothing.                                  *)
(***************************************************************************)
C36_Ticks ==
  [][ Tick
      => IF ~replay.m.autoPlay
         THEN replay'.m = replay.m /\ replay'.ticks = replay.ticks - 1
         ELSE IF replay.m.currentTurn < Len(session.Turns) - 1
         THEN /\ replay'.m.currentTurn = replay.m.currentTurn + 1
              /\ replay'.m.autoPlay
              /\ replay'.ticks = replay.ticks
         ELSE /\ replay'.m.currentTurn = replay.m.currentTurn
              /\ ~replay'.m.autoPlay
              /\ replay'.ticks = replay.ticks - 1 ]_vars

\* autoplay has gone from the first turn to the last of three and its tick
\* is still pending
C36_Witness ==
  /\ Len(session.Turns) = 3
  /\ replay.pc = "replay"
  /\ replay.m.autoPlay
  /\ replay.m.currentTurn = 2
  /\ replay.ticks = 1
  /\ replay.m.showThinking = FALSE
  /\ replay.m.expandedTools = {}

(***************************************************************************)
(* C37.  As claimed: at most one autoplay tick is pending at any time.     *)
(* The code schedules a tick whenever autoplay is switched on and cancels  *)
(* none when it is switched off.                                           *)
(***************************************************************************)
C37_OneTickPending == replay.ticks <= 1

(***************************************************************************)
(* Properties of the session lookup, under FindSpec.                       *)
(***************************************************************************)
\* the stored sessions that meet the test
Stored(how) ==
  { se \in { Flatten(find.projects)[k] : k \in 1..Len(Flatten(find.projects)) } :
      Matches(se, how, find.query) }

(***************************************************************************)
(* C33.  As claimed, for both sources: when a session whose ID equals the  *)
(* query exists, the lookup returns a session with that ID, whatever       *)
(* sessions have the query as a prefix of their ID or as their slug; and   *)
(* when no ID equals the query or begins with it and no slug equals it,    *)
(* the lookup returns the 'session not found' error.  FindSessionByID      *)
(* takes a prefix match of an earlier project before an exact match of a   *)
(* later one.                                                              *)
(***************************************************************************)
C33_ExactFirst ==
  (find.pc = "found" /\ ~find.isFile) =>
    /\ Stored("exact") # {}
         => (find.result.err = "" /\ find.result.ID = find.query)
    /\ Stored("prefix") \cup Stored("slug") = {}
         => find.result.err = "session not found"

(***************************************************************************)
(* C38.  As claimed: the browse app switches to the replay screen only     *)
(* while the sessions screen is current.  The code switches on every       *)
(* session-loaded message without an error, whatever screen is current     *)
(* when it arrives.                                                        *)
(***************************************************************************)
C38_ReplayFromSessions ==
  [][ (app'.m.screen = "replay" /\ app.m.screen # "replay")
      => app.m.screen = "sessions" ]_vars

\* C39: every session that DiscoverSessions lists (QuickScan succeeded with
\* a turn count greater than 0) loads through LoadSession into a Session
\* with at least one turn, whatever the file holds
C39_ListedSessionLoads ==
  (parsePc = "loaded" /\ Listed(quick)) =>
    /\ loaded.err = ""
    /\ Len(loaded.sess[1].Turns) >= 1

====
